---- MODULE Spec2Model ----
(***************************************************************************)
(* A model of gitbox (eyalev/gitbox): the repository resolver              *)
(* (RepoManager::find_repository) and the synchronization protocol         *)
(* (RepoManager::sync_repo), both of src/src/repo.rs.                      *)
(*                                                                         *)
(* Strings are sequences of one-character strings, so that substring       *)
(* containment and the byte-wise ordering of names are computed, not       *)
(* assumed.  The version-control engine (the git executable that           *)
(* sync_repo shells out to) is modelled by the outcomes its commands can   *)
(* have in the current state of the local clone and of the remote.         *)
(***************************************************************************)
EXTENDS Naturals, Integers, Sequences, FiniteSets, TLC

\* ------------------------------------------------------------------------
\* Bounds of the model
\* ------------------------------------------------------------------------

\* longest generated repository name (names over the letters a, b)
MaxNameLen == 2

\* most repository directories under the repository root at one time
MaxRepos == 2

\* commit identifiers are 1..MaxCommits
MaxCommits == 5

\* sync_repo invocations in one behaviour
MaxRuns == 2

\* ------------------------------------------------------------------------
\* Strings
\* ------------------------------------------------------------------------

\* The characters used, in byte order ('-' < 'a' < 'b' < ... < 'x').
Chars == <<"-", "a", "b", "e", "h", "l", "n", "o", "p", "r", "t", "x">>

CharRank(c) == CHOOSE i \in 1..Len(Chars) : Chars[i] = c

\* str::contains: t occurs in s as a contiguous substring ("" occurs in all).
Contains(s, t) ==
    \E i \in 0..(Len(s) - Len(t)) : SubSeq(s, i + 1, i + Len(t)) = t

\* The order of String (byte-wise lexicographic), used by Vec::sort.
RECURSIVE StrLess(_, _)
StrLess(s, t) ==
    IF t = <<>> THEN FALSE
    ELSE IF s = <<>> THEN TRUE
    ELSE IF Head(s) = Head(t) THEN StrLess(Tail(s), Tail(t))
    ELSE CharRank(Head(s)) < CharRank(Head(t))

\* Vec::sort of a set of distinct strings.
RECURSIVE SortedSeq(_)
SortedSeq(S) ==
    IF S = {} THEN <<>>
    ELSE LET m == CHOOSE x \in S : \A y \in S \ {x} : StrLess(x, y)
         IN  <<m>> \o SortedSeq(S \ {m})

\* All strings over the alphabet A of length 1..n.
RECURSIVE StringsUpTo(_, _)
StringsUpTo(A, n) ==
    IF n = 0 THEN {}
    ELSE LET shorter == StringsUpTo(A, n - 1)
         IN  {<<c>> : c \in A} \cup shorter
                \cup {s \o <<c>> : s \in shorter, c \in A}

Alpha == <<"a", "l", "p", "h", "a">>
Beta == <<"b", "e", "t", "a">>
AlphaBeta == Alpha \o <<"-">> \o Beta
AlphaExtra == Alpha \o <<"-", "e", "x", "t", "r", "a">>

\* Names of repository directories, and the partial names a caller may give.
RepoNames == StringsUpTo({"a", "b"}, MaxNameLen) \cup {Alpha, AlphaBeta}
PartialNames == RepoNames \cup {<<>>, Beta, AlphaExtra}

\* ------------------------------------------------------------------------
\* State
\* ------------------------------------------------------------------------

VARIABLES
    repos_dir,      \* names of the directories under config.repos_dir
    partial_name,   \* the argument of the last find_repository call
    found           \* its result

rvars == <<repos_dir, partial_name, found>>

\* The clone that sync_repo works on, and its remote.  A history is the set
\* of the commits reachable from a branch head; {} is a branch with no
\* commit (a local branch not born yet, a remote ref that does not exist).
\* The program checks out no branch but the default one (add_repo sets HEAD
\* to it, sync_repo creates it with checkout -b), so the checked-out branch
\* is the default branch whenever that branch exists.
VARIABLES
    hasRemote,      \* the clone has a remote named origin
    branchExists,   \* the ref of config.default_branch exists in the clone
    localHist,      \* history of the clone's checked-out branch
    remoteHist,     \* history of the remote's default branch
    unstaged,       \* the working tree differs from the index
    staged,         \* the index differs from the head commit
    mergeHead,      \* history being merged by an unfinished (conflicted) merge
    upstream        \* the default branch tracks origin's

gitvars == <<hasRemote, branchExists, localHist, remoteHist, unstaged,
             staged, mergeHead, upstream>>

\* One sync_repo invocation at a time (the tool is single-threaded).
VARIABLES
    pc,             \* the step sync_repo is about to execute
    result,         \* "none" while running, "Ok", or the error returned
    has_changes     \* the local of that name

\* History of the behaviour, read by the properties only.
VARIABLES
    runs,           \* sync_repo invocations started so far
    trace,          \* the commands executed by the current run, in order
    faulted,        \* a command of the current run failed for an external cause
    envChanged,     \* the tree or the remote was changed since the run began
    prevQuiet       \* the previous run returned Ok, and nothing was changed
                    \* from its beginning to the beginning of this run

svars == <<pc, result, has_changes>>
hvars == <<runs, trace, faulted, envChanged, prevQuiet>>

\* One GitboxMetadata value in memory, and the calls made on it.
VARIABLES
    metadata,       \* the record: its files map and its repo_name
    uuids,          \* identifiers handed out by Uuid::new_v4 so far
    call            \* the last call on the record, with the record before it

mvars == <<metadata, uuids, call>>

\* The file system that create_link works on.
VARIABLES
    fs,             \* what each path names
    content,        \* the content of each inode
    files_dir,      \* the repository's files directory exists
    linked          \* the last create_link call and the writes made since

lvars == <<fs, content, files_dir, linked>>

\* The records on disk and the operations that make files tracked.
VARIABLES
    records,        \* the .gitbox record of each user directory and of the
                    \* repository
    syncs,          \* sync_file and sync_from_remote invocations so far
    sync_call       \* the last of them and how it ended

tvars == <<records, syncs, sync_call>>

\* What add_repo sets up besides the directory under the root.
VARIABLES
    elsewhere,      \* directories created outside the repository root
    clones,         \* the working tree set up in each directory
    hosted,         \* names of the user's repositories on the remote host
    app_info,       \* AppInfo in memory
    info_file,      \* AppInfo as last saved
    adds,           \* add_repo invocations so far
    add_call        \* the last of them, with the state before it

avars == <<elsewhere, clones, hosted, app_info, info_file, adds, add_call>>

\* The repository root as RepoManager::new and delete_repo find it.
VARIABLES
    root,           \* config.repos_dir exists
    tree,           \* the entries of the root, with what the scan reads
    ready,          \* a RepoManager was created and no command was run yet
    ops,            \* RepoManager::new and delete_repo invocations so far
    mgr_call        \* the last of them, with the state before it

dvars == <<root, tree, ready, ops, mgr_call>>

\* The sync_file invocations that run at the same time, as processes.
VARIABLES
    procs           \* of each: its position, arguments and records in memory

pvars == <<procs>>

\* The state outside the directory listing and the clone being synchronized.
fvars == <<mvars, lvars, tvars, avars, dvars, pvars>>

vars == <<rvars, gitvars, svars, hvars, fvars>>

\* ------------------------------------------------------------------------
\* RepoManager::list_repos and RepoManager::find_repository
\* ------------------------------------------------------------------------

\* The directory names under the repository root, sorted.
list_repos(dir) == SortedSeq(dir)

\* The "none" marker of the not-found message.
NoneMarker == <<<<"n", "o", "n", "e">>>>

Ok(name) == [kind |-> "Ok", name |-> name, listing |-> <<>>]
AmbiguousName(partial, matches) ==
    [kind |-> "AmbiguousName", name |-> partial, listing |-> matches]
NotFound(partial, repos) ==
    [kind |-> "NotFound", name |-> partial,
     listing |-> IF repos = <<>> THEN NoneMarker ELSE repos]

\* ExactMatch with the comparison made against the first listed name only.
ExactMatchFirstOnly(repos, partial) == repos # <<>> /\ repos[1] = partial

\* No find_repository call made yet.
Unresolved == [kind |-> "none", name |-> <<>>, listing |-> <<>>]

\* repos.iter().any(|r| r == partial_name)
ExactMatch(repos, partial) == \E i \in 1..Len(repos) : repos[i] = partial

\* The forward pass widened to the names the partial name contains.
ForwardMatchesWithReverse(repos, partial) ==
    SelectSeq(repos, LAMBDA repo : Contains(repo, partial)
                                      \/ Contains(partial, repo))

\* The forward pass: the repositories whose name contains the partial name.
ForwardMatches(repos, partial) ==
    SelectSeq(repos, LAMBDA repo : Contains(repo, partial))

\* The reverse pass stopped at its first match.
ReverseMatchesFirstOnly(repos, partial) ==
    LET all == SelectSeq(repos, LAMBDA repo : Contains(partial, repo))
    IN  IF all = <<>> THEN <<>> ELSE <<all[1]>>

\* The reverse pass: the repositories whose name the partial name contains.
ReverseMatches(repos, partial) ==
    SelectSeq(repos, LAMBDA repo : Contains(partial, repo))

\* find_repository with the forward pass evaluated before the exact match.
find_repository_ForwardFirst(repos, partial) ==
    LET matches == ForwardMatches(repos, partial)
        reverse_matches == ReverseMatches(repos, partial)
    IN  IF Len(matches) > 1 THEN AmbiguousName(partial, matches)
        ELSE IF ExactMatch(repos, partial) THEN Ok(partial)
        ELSE IF Len(matches) = 1 THEN Ok(matches[1])
        ELSE IF Len(reverse_matches) = 1 THEN Ok(reverse_matches[1])
        ELSE IF reverse_matches = <<>> THEN NotFound(partial, repos)
        ELSE AmbiguousName(partial, reverse_matches)

find_repository(repos, partial) ==
    IF ExactMatch(repos, partial) THEN Ok(partial)
    ELSE LET matches == ForwardMatches(repos, partial)
             reverse_matches == ReverseMatches(repos, partial)
         IN  IF Len(matches) = 0
             THEN IF Len(reverse_matches) = 1 THEN Ok(reverse_matches[1])
                  ELSE IF reverse_matches = <<>> THEN NotFound(partial, repos)
                  ELSE AmbiguousName(partial, reverse_matches)
             ELSE IF Len(matches) = 1 THEN Ok(matches[1])
             ELSE AmbiguousName(partial, matches)

\* ------------------------------------------------------------------------
\* GitboxMetadata: the record of the tracked files (sync.rs)
\* ------------------------------------------------------------------------

\* most identifiers generated by Uuid::new_v4 in one behaviour
MaxUuids == 3

\* A path is a sequence of bytes and '/' separators.  A file name may hold a
\* byte that is not valid UTF-8 (Unix file names are arbitrary bytes).
Byte80 == "\\x80"
ByteFF == "\\xff"
InvalidBytes == {Byte80, ByteFF}
ReplacementChar == "U+FFFD"

\* Path::to_string_lossy: every invalid byte becomes U+FFFD.
to_string_lossy(path) ==
    [i \in 1..Len(path) |->
        IF path[i] \in InvalidBytes THEN ReplacementChar ELSE path[i]]

\* Path::join
Join(dir, name) == dir \o <<"/">> \o name

UserDirU == <<"u">>
UserDirV == <<"v">>
FilesDir == <<"repo", "/", "files">>

\* The original paths and the tracked paths passed to the record.
MetaPaths ==
    {Join(UserDirU, <<"a">>), Join(UserDirU, <<"b">>), Join(UserDirV, <<"a">>),
     Join(UserDirU, <<Byte80>>), Join(UserDirU, <<ByteFF>>)}
TrackedPaths == {Join(FilesDir, <<"a">>), Join(FilesDir, <<"b">>)}

\* Option<T>: None is the empty sequence, Some(x) a sequence of one element.
None == <<>>
Some(x) == <<x>>

\* GitboxMetadata::new
EmptyFiles == [k \in {} |-> None]
new == [files |-> EmptyFiles, repo_name |-> None]

FileInfo(id, original_path, synced_path, is_directory) ==
    [id |-> id, original_path |-> original_path,
     synced_path |-> synced_path, is_directory |-> is_directory]

\* HashMap::insert and HashMap::remove
Insert(map, key, value) ==
    [k \in DOMAIN map \cup {key} |-> IF k = key THEN value ELSE map[k]]
Remove(map, key) == [k \in DOMAIN map \ {key} |-> map[k]]

\* add_file inserting only when the key is vacant (entry().or_insert()).
add_file_KeepExisting(md, original_path, synced_path, is_directory, id) ==
    LET key == to_string_lossy(original_path)
    IN  IF key \in DOMAIN md.files THEN md
        ELSE [md EXCEPT !.files = Insert(@, key,
                 FileInfo(id, original_path, synced_path, is_directory))]

\* add_file keyed by the string form of the tracked path.
add_file_KeyedBySyncedPath(md, original_path, synced_path, is_directory, id) ==
    [md EXCEPT !.files = Insert(@, to_string_lossy(synced_path),
        FileInfo(id, original_path, synced_path, is_directory))]

\* GitboxMetadata::add_file; id is the value of Uuid::new_v4().
add_file(md, original_path, synced_path, is_directory, id) ==
    LET key == to_string_lossy(original_path)
        file_info == FileInfo(id, original_path, synced_path, is_directory)
    IN  [md EXCEPT !.files = Insert(@, key, file_info)]

\* GitboxMetadata::remove_file: the record afterwards, and the value returned.
remove_file(md, original_path) ==
    [md EXCEPT !.files = Remove(@, to_string_lossy(original_path))]
removed(md, original_path) ==
    LET key == to_string_lossy(original_path)
    IN  IF key \in DOMAIN md.files THEN Some(md.files[key]) ELSE None

\* GitboxMetadata::get_file
get_file(md, original_path) ==
    LET key == to_string_lossy(original_path)
    IN  IF key \in DOMAIN md.files THEN Some(md.files[key]) ELSE None

Called(op, original_path, synced_path, is_directory, id, ret) ==
    call' = [op |-> op, original_path |-> original_path,
             synced_path |-> synced_path, is_directory |-> is_directory,
             id |-> id, ret |-> ret, before |-> metadata]

NoCall ==
    [op |-> "none", original_path |-> <<>>, synced_path |-> <<>>,
     is_directory |-> FALSE, id |-> 0, ret |-> None, before |-> new]

\* No record is in use.
NoMeta ==
    /\ metadata = new
    /\ uuids = 0
    /\ call = NoCall

\* ------------------------------------------------------------------------
\* The file system under the user directories and the repository's files
\* directory, and create_link (sync.rs)
\* ------------------------------------------------------------------------

\* most inodes (regular files and directories) in use at one time
MaxInodes == 2

\* The content of a file, or the listing of a directory.
Data == {"x", "y"}
NoData == "-"

\* The paths of the model: one file name in two user directories, and the
\* tracked copy of that name in the repository's files directory.
OriginalU == Join(UserDirU, <<"a">>)
OriginalV == Join(UserDirV, <<"a">>)
TrackedA == Join(FilesDir, <<"a">>)
UserPaths == {OriginalU, OriginalV}
FsPaths == UserPaths \cup {TrackedA}

\* What a path names: nothing, a regular file or a directory (an inode),
\* or a symbolic link (the path stored in it).
Absent == [kind |-> "absent", ino |-> 0, to |-> <<>>]
RegularFile(ino) == [kind |-> "file", ino |-> ino, to |-> <<>>]
Directory(ino) == [kind |-> "dir", ino |-> ino, to |-> <<>>]
SymbolicLink(to) == [kind |-> "symlink", ino |-> 0, to |-> to]

Inodes == 1..MaxInodes
InodesInUse(f) == {f[p].ino : p \in DOMAIN f} \ {0}
FreeInodes(f) == Inodes \ InodesInUse(f)
FreshInode(f) == CHOOSE i \in FreeInodes(f) : \A j \in FreeInodes(f) : i <= j

\* The object a path leads to once symbolic links are followed (stat):
\* Absent for a missing path, a dangling link or a loop of links.
RECURSIVE Follow(_, _, _)
Follow(f, path, hops) ==
    IF path \notin DOMAIN f THEN Absent
    ELSE IF f[path].kind # "symlink" THEN f[path]
    ELSE IF hops = 0 THEN Absent
    ELSE Follow(f, f[path].to, hops - 1)

Stat(f, path) == Follow(f, path, Cardinality(DOMAIN f))

\* Path::exists and Path::is_dir follow symbolic links.
exists(f, path) == Stat(f, path).kind # "absent"
is_dir(f, path) == Stat(f, path).kind = "dir"

\* Reading through a path: the content of the object it leads to.
Read(f, c, path) ==
    IF exists(f, path) THEN c[Stat(f, path).ino] ELSE NoData

\* fs::canonicalize: the path with the symbolic links resolved.
RECURSIVE Canonical(_, _, _)
Canonical(f, path, hops) ==
    IF path \in DOMAIN f /\ f[path].kind = "symlink" /\ hops > 0
    THEN Canonical(f, f[path].to, hops - 1)
    ELSE path
canonicalize(f, path) == Canonical(f, path, Cardinality(DOMAIN f))

\* The parent of a tracked path is the files directory; the parent of a
\* user path is a user directory, which exists.
ParentIsFilesDir(path) == path = TrackedA

\* The result of one file-system call: whether it succeeded and the tree.
FsResult(ok, f) == [ok |-> ok, fs |-> f]

\* The calls that can fail for a cause outside the model (permissions, a
\* read-only or full volume, two volumes for a hard link).
FsCalls == {"remove_file", "create_dir_all", "hard_link", "symlink"}

\* The failures of one create_link invocation: one call fails, or hard_link
\* and the symlink tried after it both fail (a failed remove_file or
\* create_dir_all ends the invocation, so it is followed by no other call).
FaultSets == {{}} \cup {{op} : op \in FsCalls} \cup {{"hard_link", "symlink"}}

\* fs::remove_file (unlink): removes a file name or a symbolic link itself,
\* and fails on a directory.
fs_remove_file(f, path, faults) ==
    IF f[path].kind \in {"file", "symlink"} /\ "remove_file" \notin faults
    THEN FsResult(TRUE, [f EXCEPT ![path] = Absent])
    ELSE FsResult(FALSE, f)

\* fs::hard_link (linkat without AT_SYMLINK_FOLLOW): a second name for the
\* object at original; fails when link is present, when original is
\* missing or a directory, or for an outside cause.
fs_hard_link(f, original, link, faults) ==
    IF f[link].kind = "absent" /\ f[original].kind \in {"file", "symlink"}
          /\ "hard_link" \notin faults
    THEN FsResult(TRUE, [f EXCEPT ![link] = f[original]])
    ELSE FsResult(FALSE, f)

\* std::os::unix::fs::symlink: a symbolic link holding the path original;
\* fails when anything, a dangling link included, is present at link.
fs_symlink(f, original, link, faults) ==
    IF f[link].kind = "absent" /\ "symlink" \notin faults
    THEN FsResult(TRUE, [f EXCEPT ![link] = SymbolicLink(original)])
    ELSE FsResult(FALSE, f)

\* The content after a tree change: an inode that lost its last name has
\* no content any more.
ContentAfter(c, g) ==
    [i \in Inodes |-> IF i \in InodesInUse(g) THEN c[i] ELSE NoData]

\* What create_link returns and leaves behind: Ok or Err, the tree, whether
\* the files directory exists, and the file-system calls it made in order.
LinkResult(ok, f, files_dir_exists, calls) ==
    [ok |-> ok, fs |-> f, files_dir |-> files_dir_exists, calls |-> calls]

FsCall(op, ok) == [op |-> op, ok |-> ok]

\* if link.exists() { fs::remove_file(link)? }
LinkPresent(f, link) == exists(f, link)

\* A failed hard_link is returned as the error.
HardLinkFailureFallsBackNever == FALSE

\* Err(_) => create_symlink(original, link)
HardLinkFailureFallsBack == TRUE

\* create_link(original, link); faults are the calls that fail for an
\* outside cause during this invocation.
create_link(f, files_dir_exists, original, link, faults) ==
    LET present == LinkPresent(f, link)
        rm == IF present THEN fs_remove_file(f, link, faults)
                         ELSE FsResult(TRUE, f)
        rm_calls == IF present THEN <<FsCall("remove_file", rm.ok)>>
                               ELSE <<>>
        f1 == rm.fs
        parent_missing == ParentIsFilesDir(link) /\ ~files_dir_exists
        mk_ok == "create_dir_all" \notin faults
        mk_calls == IF parent_missing
                       THEN <<FsCall("create_dir_all", mk_ok)>> ELSE <<>>
        hl == fs_hard_link(f1, original, link, faults)
        sl == fs_symlink(f1, original, link, faults)
        hl_calls == <<FsCall("hard_link", hl.ok)>>
        sl_calls == <<FsCall("symlink", sl.ok)>>
    IN  IF ~rm.ok
        THEN LinkResult(FALSE, f, files_dir_exists, rm_calls)
        ELSE IF parent_missing /\ ~mk_ok
        THEN LinkResult(FALSE, f1, FALSE, rm_calls \o mk_calls)
        ELSE IF is_dir(f1, original)
        THEN LinkResult(sl.ok, sl.fs, TRUE, rm_calls \o mk_calls \o sl_calls)
        ELSE IF hl.ok
        THEN LinkResult(TRUE, hl.fs, TRUE, rm_calls \o mk_calls \o hl_calls)
        ELSE IF HardLinkFailureFallsBack
        THEN LinkResult(sl.ok, sl.fs, TRUE,
                        rm_calls \o mk_calls \o hl_calls \o sl_calls)
        ELSE LinkResult(FALSE, f1, TRUE, rm_calls \o mk_calls \o hl_calls)

\* The kind of object at a path, as the caller of create_link finds it.
KindAt(f, path) ==
    CASE f[path].kind = "absent" -> "absent"
      [] f[path].kind = "dir" -> "directory"
      [] f[path].kind = "symlink" ->
            IF exists(f, path) THEN "live symlink" ELSE "dangling symlink"
      [] OTHER ->
            IF \E q \in DOMAIN f \ {path} : f[q] = f[path]
               THEN "hard link" ELSE "regular file"

\* No create_link call made yet, or the tree was rearranged since.
NoLink ==
    [op |-> "none", original |-> <<>>, link |-> <<>>, ok |-> FALSE,
     calls |-> <<>>, faulted |-> FALSE, found |-> "absent",
     original_is_dir |-> FALSE, had |-> NoData, written |-> {}]

\* No file system is in use.
NoLinks ==
    /\ fs = [p \in FsPaths |-> Absent]
    /\ content = [i \in Inodes |-> NoData]
    /\ files_dir = FALSE
    /\ linked = NoLink

\* ------------------------------------------------------------------------
\* RepoManager::sync_file and RepoManager::sync_from_remote (repo.rs)
\* ------------------------------------------------------------------------

\* most sync_file and sync_from_remote invocations in one behaviour
MaxSyncs == 2

\* The directory of the repository, which holds its own record.
RepoDir == <<"repo">>
UserDirs == {UserDirU, UserDirV}
RecordDirs == UserDirs \cup {RepoDir}

\* Path::file_name
file_name(path) == <<path[Len(path)]>>

\* serde_json writes a path as a string and fails on one that is not UTF-8.
Serializable(md) ==
    \A k \in DOMAIN md.files :
        \A i \in 1..Len(md.files[k].original_path) :
            md.files[k].original_path[i] \notin InvalidBytes

\* GitboxMetadata::load_from_dir and save_to_dir: the record kept in the
\* .gitbox file of a directory (an empty record when there is no file).
load_from_dir(recs, dir) == recs[dir]

\* save_to_dir keeping the entries that the file holds already.
save_to_dir_Merging(recs, dir, md) ==
    [recs EXCEPT ![dir] =
        [md EXCEPT !.files =
            [k \in DOMAIN md.files \cup DOMAIN recs[dir].files |->
                IF k \in DOMAIN md.files THEN md.files[k]
                ELSE recs[dir].files[k]]]]

\* fs::write(&gitbox_file, content): the file becomes the record in memory.
save_to_dir(recs, dir, md) == [recs EXCEPT ![dir] = md]

\* The steps of the two operations that can fail for an outside cause.
SyncFaults ==
    {"none", "sync_repo", "create_dir_all", "remove_file", "hard_link",
     "symlink", "hard_link+symlink", "save_local", "save_repo", "commit",
     "push", "update_repository"}

\* The file-system calls of create_link that a fault makes fail.
LinkFaults(fault) ==
    CASE fault \in {"remove_file", "hard_link", "symlink"} -> {fault}
      [] fault = "hard_link+symlink" -> {"hard_link", "symlink"}
      [] OTHER -> {}

\* What an operation returns and leaves behind; ids counts the identifiers
\* that were written to a record.
SyncResult(err, f, files_dir_exists, recs, ids, steps, commands) ==
    [ok |-> err = "Ok", err |-> err, fs |-> f, files_dir |-> files_dir_exists,
     records |-> recs, uuids |-> ids, steps |-> steps,
     commands |-> commands]

\* config.default_branch: "main" unless config.json names another branch.
Branches == {"main", "master"}

\* The pulls and pushes of sync_repo, as "git pull .. origin <branch>" and
\* "git push .. origin <branch>"; the branch is the last argument.
PullCommand(branch) == <<"pull", "origin", branch>>
PushCommand(branch) == <<"push", "origin", branch>>
BranchOf(command) == command[Len(command)]

\* push_repo_changes: .args(&["push", "origin", "main"])
push_repo_changes == <<"push", "origin", "main">>

\* sync_repo as sync_from_remote sees it: it pulls, and pushes unless it
\* fails before.
sync_repo_commands(default_branch, ok) ==
    IF ok THEN <<PullCommand(default_branch), PushCommand(default_branch)>>
    ELSE <<PullCommand(default_branch)>>

\* local_metadata.add_file(..); local_metadata.repo_name = Some(repo_name)
Tracked(md, original_path, synced_path, is_directory, id, repo_name) ==
    [add_file(md, original_path, synced_path, is_directory, id)
        EXCEPT !.repo_name = Some(repo_name)]

\* sync_file(file_path, repo_name) run in current_dir on a tree f with
\* records recs; repo_exists is repo_path.exists().
sync_file(f, files_dir_exists, recs, ids, current_dir, file_path, repo_name, repo_exists, fault) ==
    LET original_path == canonicalize(f, file_path)
        local_metadata == load_from_dir(recs, current_dir)
        synced_path == Join(FilesDir, file_name(original_path))
        is_directory == is_dir(f, original_path)
        lr == create_link(f, TRUE, original_path, synced_path,
                          LinkFaults(fault))
        local1 == Tracked(local_metadata, original_path, synced_path,
                          is_directory, ids + 1, repo_name)
        recs1 == save_to_dir(recs, current_dir, local1)
        repo_metadata == add_file(load_from_dir(recs1, RepoDir),
                                  original_path, synced_path, is_directory,
                                  ids + 2)
        recs2 == save_to_dir(recs1, RepoDir, repo_metadata)
        linked_steps == <<"create_link">>
        local_steps == linked_steps \o <<"save_local">>
        repo_steps == local_steps \o <<"save_repo">>
    IN  IF ~repo_exists
        THEN SyncResult("Repository does not exist", f, files_dir_exists,
                        recs, ids, <<>>, <<>>)
        ELSE IF ~exists(f, file_path)
        THEN SyncResult("File or directory does not exist", f,
                        files_dir_exists, recs, ids, <<>>, <<>>)
        ELSE IF get_file(local_metadata, original_path) # None
        THEN SyncResult("File is already synced to a repository", f,
                        files_dir_exists, recs, ids, <<>>, <<>>)
        ELSE IF ~files_dir_exists /\ fault = "create_dir_all"
        THEN SyncResult("Failed to create files directory", f, FALSE,
                        recs, ids, <<>>, <<>>)
        ELSE IF ~lr.ok
        THEN SyncResult("Failed to create link", lr.fs, TRUE, recs, ids, <<>>,
                        <<>>)
        ELSE IF fault = "save_local" \/ ~Serializable(local1)
        THEN SyncResult("Failed to write metadata", lr.fs, TRUE, recs,
                        ids, linked_steps, <<>>)
        ELSE IF fault = "save_repo" \/ ~Serializable(repo_metadata)
        THEN SyncResult("Failed to write metadata", lr.fs, TRUE, recs1,
                        ids + 1, local_steps, <<>>)
        ELSE IF fault = "commit"
        THEN SyncResult("Failed to commit", lr.fs, TRUE, recs2, ids + 2,
                        repo_steps, <<>>)
        ELSE IF fault = "push"
        THEN SyncResult("Failed to push", lr.fs, TRUE, recs2, ids + 2,
                        repo_steps \o <<"commit">>, <<push_repo_changes>>)
        ELSE IF fault = "update_repository"
        THEN SyncResult("Failed to write app info", lr.fs, TRUE, recs2,
                        ids + 2, repo_steps \o <<"commit", "push">>,
                        <<push_repo_changes>>)
        ELSE SyncResult("Ok", lr.fs, TRUE, recs2, ids + 2,
                        repo_steps \o <<"commit", "push",
                                        "update_repository">>,
                        <<push_repo_changes>>)

\* sync_from_remote(filename, repo_name) run in current_dir, for a
\* repository that exists; f is the tree as sync_repo's pull left it.
sync_from_remote(f, files_dir_exists, recs, ids, current_dir, filename, repo_name, default_branch, fault) ==
    LET synced_file_path == Join(FilesDir, filename)
        destination_path == Join(current_dir, filename)
        is_directory == is_dir(f, synced_file_path)
        lr == create_link(f, files_dir_exists, synced_file_path,
                          destination_path, LinkFaults(fault))
        local_metadata ==
            Tracked(load_from_dir(recs, current_dir), destination_path,
                    synced_file_path, is_directory, ids + 1, repo_name)
        recs1 == save_to_dir(recs, current_dir, local_metadata)
        synced == sync_repo_commands(default_branch, TRUE)
    IN  IF fault = "sync_repo"
        THEN SyncResult("Failed to sync repository", f, files_dir_exists,
                        recs, ids, <<>>,
                        sync_repo_commands(default_branch, FALSE))
        ELSE IF ~exists(f, synced_file_path)
        THEN SyncResult("File not found in repository", f, files_dir_exists,
                        recs, ids, <<"sync_repo">>, synced)
        ELSE IF exists(f, destination_path)
        THEN SyncResult("File already exists in current directory", f,
                        files_dir_exists, recs, ids, <<"sync_repo">>,
                        synced)
        ELSE IF ~lr.ok
        THEN SyncResult("Failed to create link", lr.fs, lr.files_dir, recs,
                        ids, <<"sync_repo">>, synced)
        ELSE IF fault = "save_local" \/ ~Serializable(local_metadata)
        THEN SyncResult("Failed to write metadata", lr.fs, lr.files_dir,
                        recs, ids, <<"sync_repo", "create_link">>, synced)
        ELSE SyncResult("Ok", lr.fs, lr.files_dir, recs1, ids + 1,
                        <<"sync_repo", "create_link", "save_local">>, synced)

\* No sync_file or sync_from_remote call made yet.
NoSyncCall ==
    [op |-> "none", current_dir |-> <<>>, file_path |-> <<>>,
     original_path |-> <<>>, ok |-> FALSE, err |-> "none", steps |-> <<>>,
     default_branch |-> "main", commands |-> <<>>]

\* No file is tracked: every record is empty.
NoTracking ==
    /\ records = [d \in RecordDirs |-> new]
    /\ syncs = 0
    /\ sync_call = NoSyncCall

\* ------------------------------------------------------------------------
\* RepoManager::add_repo (repo.rs), GitHubClient (github.rs) and
\* AppInfo::add_repository (config.rs)
\* ------------------------------------------------------------------------

\* most add_repo invocations in one behaviour
MaxAdds == 2

\* The names passed to add_repo, as sequences of characters: empty, blank,
\* plain, padded, with a separator, and the two special directory names.
Dot == <<".">>
DotDot == <<".", ".">>
AddNames ==
    {<<>>, <<" ">>, <<"\t", " ">>, <<"a">>, <<"b">>, <<" ", "a">>,
     <<"a", "/", "b">>, <<"a", "\\", "b">>, Dot, DotDot,
     <<".", ".", "/", "x">>}

\* str::trim().is_empty(): the name holds white space only.
WhiteSpace == {" ", "\t"}
TrimIsEmpty(name) == \A i \in 1..Len(name) : name[i] \in WhiteSpace

\* repo_name.contains('/') || repo_name.contains('\\')
HasSeparator(name) == \E i \in 1..Len(name) : name[i] \in {"/", "\\"}

\* A directory is a sequence of components below the file-system root.
\* config.repos_dir, which RepoManager::new has created:
ReposRoot == <<<<"home">>, <<"repos">>>>

\* The components of a relative path, split at '/'.
RECURSIVE Components(_)
Components(path) ==
    IF \A i \in 1..Len(path) : path[i] # "/"
    THEN IF path = <<>> THEN <<>> ELSE <<path>>
    ELSE LET cut == CHOOSE i \in 1..Len(path) :
                        path[i] = "/" /\ \A j \in 1..(i - 1) : path[j] # "/"
             head == SubSeq(path, 1, cut - 1)
             rest == Components(SubSeq(path, cut + 1, Len(path)))
         IN  IF head = <<>> THEN rest ELSE <<head>> \o rest

\* The directory a path leads to from a base: "." stays, ".." goes up.
RECURSIVE Walk(_, _)
Walk(base, comps) ==
    IF comps = <<>> THEN base
    ELSE LET next == IF comps[1] = Dot THEN base
                     ELSE IF comps[1] = DotDot
                     THEN IF base = <<>> THEN base
                          ELSE SubSeq(base, 1, Len(base) - 1)
                     ELSE Append(base, comps[1])
         IN  Walk(next, Tail(comps))

\* Config::get_repo_path: repos_dir.join(repo_name), as the directory the
\* operating system resolves it to.
get_repo_path(repo_name) == Walk(ReposRoot, Components(repo_name))

\* The directory lies directly under the repository root.
UnderRoot(dir) ==
    Len(dir) = Len(ReposRoot) + 1 /\ SubSeq(dir, 1, Len(ReposRoot)) = ReposRoot

\* The directories on disk: the root and what is above it, the repository
\* directories, and what was created elsewhere.
DirExists(dir, repos, outside) ==
    \/ Len(dir) <= Len(ReposRoot) /\ dir = SubSeq(ReposRoot, 1, Len(dir))
    \/ UnderRoot(dir) /\ dir[Len(dir)] \in repos
    \/ dir \in outside

\* The working tree in a directory: how far its set-up got, its record,
\* its remote, and how the first synchronization went.
NoClone ==
    [git |-> "none", record |-> None, remote |-> None, first_sync |-> "none"]
CloneAt(cl, dir) == IF dir \in DOMAIN cl THEN cl[dir] ELSE NoClone
SetClone(cl, dir, c) ==
    [d \in DOMAIN cl \cup {dir} |-> IF d = dir THEN c ELSE cl[d]]

\* The clone URL of a repository of the authenticated user.
UserName == <<"u", "s", "e", "r">>
CloneUrl(repo_name) ==
    <<"git@github.com:">> \o UserName \o <<"/">> \o repo_name \o <<".git">>

\* AppInfo: the repositories map and the totals.
RepoInfo(name, file_count, remote_url) ==
    [name |-> name, file_count |-> file_count, remote_url |-> remote_url]
EmptyAppInfo ==
    [repositories |-> [n \in {} |-> None], total_repos |-> 0,
     total_files |-> 0, updates |-> 0]

\* AppInfo::add_repository, before self.save()
add_repository(info, name, remote_url) ==
    LET repositories == Insert(info.repositories, name,
                               RepoInfo(name, 0, remote_url))
    IN  [info EXCEPT !.repositories = repositories,
                     !.total_repos = Cardinality(DOMAIN repositories),
                     !.updates = @ + 1]

\* The errors of add_repo.
ErrEmptyName == "Repository name cannot be empty"
ErrSeparators == "Repository name cannot contain path separators"
ErrAlreadyExists == "Repository already exists"

\* The steps of add_repo that can fail for an outside cause.
AddFaults ==
    {"none", "create_dir_all", "init", "save_metadata", "commit",
     "reference", "set_head", "auth_status", "repo_create", "repo_view",
     "api_user", "remote", "pull", "push", "save_info"}

\* The state add_repo works on, and what it returns with it.
AddState(repos, outside, cl, on_host, info, saved) ==
    [repos_dir |-> repos, elsewhere |-> outside, clones |-> cl,
     hosted |-> on_host, app_info |-> info, info_file |-> saved]
AddResult(err, st, requests, create_error, clone_url, commands) ==
    [ok |-> err = "Ok", err |-> err, state |-> st, requests |-> requests,
     create_error |-> create_error, clone_url |-> clone_url,
     commands |-> commands]

\* A git command that add_repo ran in the new clone, and how it ended:
\* "ok", "fail" (a non-zero exit status) or "exec" (it could not be run).
GitCommand(step, out) == [step |-> step, out |-> out]

\* The name check passing every name that is not blank.
NameHasNoSeparatorAlways(repo_name) == TRUE

\* if repo_name.contains('/') || repo_name.contains('\\') { return Err }
NameHasNoSeparator(repo_name) == ~HasSeparator(repo_name)

\* The existence check finding no directory.
TargetExistsNever(repo_path, st) == FALSE

\* if repo_path.exists() { return Err }
TargetExists(repo_path, st) ==
    DirExists(repo_path, st.repos_dir, st.elsewhere)

\* fs::create_dir_all(&repo_path)
WithDir(st, repo_path) ==
    IF DirExists(repo_path, st.repos_dir, st.elsewhere) THEN st
    ELSE IF UnderRoot(repo_path)
    THEN [st EXCEPT !.repos_dir = @ \cup {repo_path[Len(repo_path)]}]
    ELSE [st EXCEPT !.elsewhere = @ \cup {repo_path}]

\* A step of the set-up of the working tree in repo_path.
WithClone(st, repo_path, field, value) ==
    [st EXCEPT !.clones =
        SetClone(@, repo_path,
                 [CloneAt(@, repo_path) EXCEPT ![field] = value])]

\* What gh writes to stderr, as words: the name is taken on the account,
\* and the host cannot be reached.
GhNameExists ==
    <<"GraphQL:", "Name", "already", "exists", "on", "this", "account">>
GhUnreachable == <<"error", "connecting", "to", "api.github.com">>

\* The errors of create_private_repo, before the ": {stderr}".
ErrRepoCreate == "Failed to create GitHub repository:"
ErrRepoView == "Failed to get repository clone URL:"

\* GitHubClient::create_private_repo: "gh repo create", then "gh repo
\* view" for the sshUrl. error is the message of the Err as words, created
\* whether the host now holds the repository.
GhResult(error, url, created, requests) ==
    [ok |-> error = <<>>, error |-> error, url |-> url,
     created |-> created, requests |-> requests]
create_private_repo(repo_name, on_host, fault) ==
    IF fault = "repo_create"
    THEN GhResult(<<ErrRepoCreate>> \o GhUnreachable, None, FALSE,
                  <<"repo create">>)
    ELSE IF repo_name \in on_host
    THEN GhResult(<<ErrRepoCreate>> \o GhNameExists, None, FALSE,
                  <<"repo create">>)
    ELSE IF fault = "repo_view"
    THEN GhResult(<<ErrRepoView>> \o GhUnreachable, None, TRUE,
                  <<"repo create", "repo view">>)
    ELSE GhResult(<<>>, Some(CloneUrl(repo_name)), TRUE,
                  <<"repo create", "repo view">>)

\* Every failure of the creation taken for an existing repository.
ReportsAlreadyExistsAlways(error_msg) == TRUE

\* error_msg.contains("Name already exists")
\*     || error_msg.contains("already exists")
ReportsAlreadyExists(error_msg) ==
    \/ Contains(error_msg, <<"Name", "already", "exists">>)
    \/ Contains(error_msg, <<"already", "exists">>)

\* The initial commit pushed whatever the pull did.
PushesInitialCommitAlways(pull_success) == TRUE

\* if pull_output.status.success() { .. } else { git push -u origin .. }
PushesInitialCommit(pull_success) == ~pull_success

\* add_repo(repo_name) on state st; fault is the step that fails for an
\* outside cause, pull_ok whether the pull from an existing remote succeeds.
add_repo(st, repo_name, fault, pull_ok) ==
    LET repo_path == get_repo_path(repo_name)
        s1 == WithDir(st, repo_path)
        s2 == WithClone(s1, repo_path, "git", "init")
        s3 == WithClone(s2, repo_path, "record",
                        Some([new EXCEPT !.repo_name = Some(repo_name)]))
        s4 == WithClone(s3, repo_path, "git", "commit")
        s5 == WithClone(s4, repo_path, "git", "branch")
        s6 == WithClone(s5, repo_path, "git", "head")
        hosted_before == repo_name \in st.hosted
        gh == create_private_repo(repo_name, st.hosted, fault)
        fallback == ~gh.ok /\ ReportsAlreadyExists(gh.error)
        s7 == IF gh.created THEN [s6 EXCEPT !.hosted = @ \cup {repo_name}]
              ELSE s6
        clone_url == IF gh.ok THEN gh.url[1] ELSE CloneUrl(repo_name)
        s8 == WithClone(s7, repo_path, "remote", Some(clone_url))
        pulled == hosted_before /\ pull_ok
        pushes == PushesInitialCommit(pulled)
        pull == GitCommand("pull", IF pulled THEN "ok" ELSE "fail")
        s9 == WithClone(s8, repo_path, "first_sync",
                        IF pushes THEN "pushed" ELSE "pulled")
        synced == IF pushes THEN <<pull, GitCommand("push", "ok")>>
                  ELSE <<pull>>
        info == add_repository(st.app_info, repo_name, Some(clone_url))
        s10 == [s9 EXCEPT !.app_info = info]
        s11 == [s10 EXCEPT !.info_file = info]
        auth == <<"auth status">>
        create == auth \o gh.requests
        lookup == create \o (IF fallback THEN <<"api user">> ELSE <<>>)
        Early(err, state) == AddResult(err, state, <<>>, <<>>, None, <<>>)
        Late(err, state, commands) ==
            AddResult(err, state, lookup, gh.error, Some(clone_url),
                      commands)
    IN  IF TrimIsEmpty(repo_name) THEN Early(ErrEmptyName, st)
        ELSE IF ~NameHasNoSeparator(repo_name) THEN Early(ErrSeparators, st)
        ELSE IF TargetExists(repo_path, st) THEN Early(ErrAlreadyExists, st)
        ELSE IF fault = "create_dir_all"
        THEN Early("Failed to create repository directory", st)
        ELSE IF fault = "init"
        THEN Early("Failed to initialize git repository", s1)
        ELSE IF fault = "save_metadata"
        THEN Early("Failed to write metadata", s2)
        ELSE IF fault = "commit"
        THEN Early("Failed to create initial commit", s3)
        ELSE IF fault = "reference"
        THEN Early("Failed to create branch reference", s4)
        ELSE IF fault = "set_head" THEN Early("Failed to set HEAD", s5)
        ELSE IF fault = "auth_status"
        THEN AddResult("GitHub CLI authentication failed", s6, auth,
                       <<>>, None, <<>>)
        ELSE IF ~gh.ok /\ ~fallback
        THEN AddResult(gh.error[1], s7, create, gh.error, None, <<>>)
        ELSE IF fallback /\ fault = "api_user"
        THEN AddResult("Failed to get authenticated user", s7, lookup,
                       gh.error, None, <<>>)
        ELSE IF fault = "remote"
        THEN Late("Failed to add remote origin", s7, <<>>)
        ELSE IF fault = "pull"
        THEN Late("Failed to execute git pull", s8,
                  <<GitCommand("pull", "exec")>>)
        ELSE IF pushes /\ fault = "push"
        THEN Late("Failed to push to GitHub", s8,
                  <<pull, GitCommand("push", "fail")>>)
        ELSE IF fault = "save_info"
        THEN Late("Failed to write info file", s10, synced)
        ELSE Late("Ok", s11, synced)

\* No add_repo call made yet, or the remote host has changed since.
NoAddCall ==
    [op |-> "none", repo_name |-> <<>>, ok |-> FALSE, err |-> "none",
     requests |-> <<>>, create_error |-> <<>>, clone_url |-> None,
     commands |-> <<>>,
     before |-> AddState({}, {}, <<>>, {}, EmptyAppInfo, EmptyAppInfo)]

\* No repository was set up by add_repo.
NoAdds ==
    /\ elsewhere = {}
    /\ clones = <<>>
    /\ hosted = {}
    /\ app_info = EmptyAppInfo
    /\ info_file = EmptyAppInfo
    /\ adds = 0
    /\ add_call = NoAddCall

\* ------------------------------------------------------------------------
\* AppInfo::refresh_from_disk, AppInfo::remove_repository (config.rs),
\* RepoManager::new and RepoManager::delete_repo (repo.rs)
\* ------------------------------------------------------------------------

\* most entries in a repository's files directory
MaxFiles == 2

\* most RepoManager::new and delete_repo invocations in one behaviour
MaxOps == 3

\* The names found under the repository root: two repositories and an
\* entry that is a regular file.  TrackedRepo is the repository whose
\* directory is RepoDir, the one that holds the tracked copy.
TrackedRepo == <<"a">>
OtherRepo == <<"b">>
StrayName == <<"c">>
EntryNames == {TrackedRepo, OtherRepo, StrayName}

\* A remote URL that the clone URL has replaced.
FormerUrl(repo_name) ==
    <<"https://github.com/">> \o UserName \o <<"/">> \o repo_name

\* What the scan finds for one entry of the root: whether it is a
\* directory, whether it has a files directory and how many entries that
\* has, and what "git remote get-url origin" prints (None when it fails).
DirEntry(files_dir_exists, file_count, remote) ==
    [is_dir |-> TRUE, files_dir |-> files_dir_exists,
     file_count |-> file_count, remote |-> remote]
StrayFile ==
    [is_dir |-> FALSE, files_dir |-> FALSE, file_count |-> 0, remote |-> None]
DirEntries(name) ==
    {DirEntry(FALSE, 0, None), DirEntry(TRUE, MaxFiles - 1, None),
     DirEntry(TRUE, MaxFiles, Some(CloneUrl(name)))}

\* The immediate subdirectories of the root (path.is_dir()).
Subdirectories(entries) == {n \in DOMAIN entries : entries[n].is_dir}

\* The AppInfo values that info.json may hold from earlier runs: nothing,
\* totals without entries, entries with totals that do not match them, and
\* an entry with no URL and no file.
RECURSIVE SumOver(_, _)
SumOver(counts, names) ==
    IF names = {} THEN 0
    ELSE LET n == CHOOSE m \in names : TRUE
         IN  counts[n] + SumOver(counts, names \ {n})
TotalFiles(repositories) ==
    SumOver([n \in DOMAIN repositories |-> repositories[n].file_count],
            DOMAIN repositories)
StoredInfo(repositories, total_repos, total_files) ==
    [repositories |-> repositories, total_repos |-> total_repos,
     total_files |-> total_files, updates |-> 0]
StoredInfos ==
    {EmptyAppInfo,
     StoredInfo(EmptyAppInfo.repositories, 1, MaxFiles),
     StoredInfo([n \in {TrackedRepo, OtherRepo} |->
                    RepoInfo(n, MaxFiles, Some(FormerUrl(n)))],
                2, MaxFiles + 1),
     StoredInfo([n \in {TrackedRepo} |-> RepoInfo(n, 0, None)], 1, 0)}

\* usize::saturating_sub
saturating_sub(a, b) == IF a >= b THEN a - b ELSE 0

\* Option::or_else
or_else(opt, other) == IF opt # None THEN opt ELSE other

\* remove_repository leaving total_files as it was.
remove_repository_KeepTotal(info, name) ==
    LET repositories == Remove(info.repositories, name)
    IN  [info EXCEPT !.repositories = repositories,
                     !.total_repos = Cardinality(DOMAIN repositories),
                     !.updates = @ + 1]

\* AppInfo::remove_repository, before self.save()
remove_repository(info, name) ==
    LET total_files ==
            IF name \in DOMAIN info.repositories
            THEN saturating_sub(info.total_files,
                                info.repositories[name].file_count)
            ELSE info.total_files
        repositories == Remove(info.repositories, name)
    IN  [info EXCEPT !.repositories = repositories,
                     !.total_files = total_files,
                     !.total_repos = Cardinality(DOMAIN repositories),
                     !.updates = @ + 1]

\* AppInfo::update_repository, before self.save(): nothing is changed, and
\* nothing saved, for a name without an entry.
update_repository(info, name, file_count) ==
    IF name \notin DOMAIN info.repositories THEN info
    ELSE LET old_count == info.repositories[name].file_count
         IN  [info EXCEPT
                !.repositories[name].file_count = file_count,
                !.total_files = saturating_sub(@, old_count) + file_count,
                !.updates = @ + 1]

\* The scan adding to the entries that are already known.
refresh_from_disk_Merging(info, root_exists, entries) ==
    LET dirs == Subdirectories(entries)
        repositories ==
            [n \in DOMAIN info.repositories \cup dirs |->
                IF n \in dirs
                THEN RepoInfo(n, entries[n].file_count, entries[n].remote)
                ELSE info.repositories[n]]
    IN  IF ~root_exists THEN info
        ELSE [info EXCEPT !.repositories = repositories,
                          !.total_repos = Cardinality(DOMAIN repositories),
                          !.total_files = TotalFiles(repositories),
                          !.updates = @ + 1]

\* AppInfo::refresh_from_disk, before self.save(): the map is rebuilt from
\* the directories under the root; nothing is done when the root is missing.
refresh_from_disk(info, root_exists, entries) ==
    LET dirs == Subdirectories(entries)
        file_count(n) ==
            IF entries[n].files_dir THEN entries[n].file_count ELSE 0
        remote_url(n) ==
            IF n \in DOMAIN info.repositories
            THEN or_else(entries[n].remote, info.repositories[n].remote_url)
            ELSE entries[n].remote
        found_repos ==
            [n \in dirs |-> RepoInfo(n, file_count(n), remote_url(n))]
        total_files == SumOver([n \in dirs |-> file_count(n)], dirs)
    IN  IF ~root_exists THEN info
        ELSE [info EXCEPT !.repositories = found_repos,
                          !.total_repos = Cardinality(DOMAIN found_repos),
                          !.total_files = total_files,
                          !.updates = @ + 1]

\* The lines that read_line may return for the confirmation: the answer
\* with its line terminator, and the empty string at end of input.
Lines ==
    {<<"y", "\n">>, <<"Y", "\n">>, <<"y", "e", "s", "\n">>,
     <<"Y", "e", "S", "\r", "\n">>, <<" ", "y", " ", "\n">>,
     <<"n", "\n">>, <<"\n">>, <<>>, <<"y", "e", "\n">>,
     <<"y", "e", "s", "!", "\n">>, <<"y", " ", "e", "s", "\n">>}

\* str::trim: the white space at both ends is removed.
LineSpace == {" ", "\t", "\n", "\r"}
RECURSIVE TrimStart(_)
TrimStart(s) ==
    IF s # <<>> /\ s[1] \in LineSpace THEN TrimStart(Tail(s)) ELSE s
RECURSIVE TrimEnd(_)
TrimEnd(s) ==
    IF s # <<>> /\ s[Len(s)] \in LineSpace
    THEN TrimEnd(SubSeq(s, 1, Len(s) - 1)) ELSE s
trim(s) == TrimEnd(TrimStart(s))

\* str::to_lowercase, on the letters of the model.
LowerOf(c) ==
    CASE c = "Y" -> "y" [] c = "E" -> "e" [] c = "S" -> "s"
      [] c = "N" -> "n" [] OTHER -> c
to_lowercase(s) == [i \in 1..Len(s) |-> LowerOf(s[i])]

\* The confirmation taken as given whatever was typed.
ConfirmedAlways(line) == TRUE

\* input != "y" && input != "yes" cancels, for input the trimmed line in
\* lower case.
Confirmed(line) ==
    to_lowercase(trim(line)) \in {<<"y">>, <<"y", "e", "s">>}

\* The steps of delete_repo that can fail for an outside cause.
DeleteFaults ==
    {"none", "load_metadata", "read_line", "remove_dir_all", "save_info"}

\* What delete_repo returns and leaves behind: the error or "Ok", the
\* repository whose directory was removed (None if none), AppInfo in
\* memory and as saved, and the commands that were run.
DeleteResult(err, gone, info, saved, commands) ==
    [ok |-> err = "Ok", err |-> err, removed |-> gone,
     app_info |-> info, info_file |-> saved, commands |-> commands]

\* delete_repo(repo_name, force) with the root holding entries; line is
\* what the user answers when asked.
delete_repo(entries, info, saved, repo_name, force, line, fault) ==
    LET resolved ==
            find_repository(list_repos(Subdirectories(entries)), repo_name)
        actual_repo_name == resolved.name
        asked == IF force THEN <<>> ELSE <<"git remote get-url origin">>
        info1 == remove_repository(info, actual_repo_name)
    IN  IF resolved.kind # "Ok"
        THEN DeleteResult(resolved.kind, None, info, saved, <<>>)
        ELSE IF fault = "load_metadata"
        THEN DeleteResult("Failed to parse metadata file", None, info,
                          saved, <<>>)
        ELSE IF ~force /\ fault = "read_line"
        THEN DeleteResult("Failed to read the answer", None, info, saved,
                          asked)
        ELSE IF ~force /\ ~Confirmed(line)
        THEN DeleteResult("Ok", None, info, saved, asked)
        ELSE IF fault = "remove_dir_all"
        THEN DeleteResult("Failed to delete repository directory", None,
                          info, saved, asked)
        ELSE IF fault = "save_info"
        THEN DeleteResult("Failed to write info file",
                          Some(actual_repo_name), info1, saved, asked)
        ELSE DeleteResult("Ok", Some(actual_repo_name), info1, info1, asked)

\* fs::remove_dir_all on the directory of a repository: the entry of the
\* root goes, and with the tracked repository its files directory and the
\* tracked copy in it (a symbolic link there is removed, not followed).
WithoutEntry(entries, gone) ==
    IF gone = None THEN entries
    ELSE [n \in DOMAIN entries \ {gone[1]} |-> entries[n]]
\* The removal following a symbolic link in the files directory to the
\* user's directory it names, and removing that too.
WithoutTracked_FollowingLinks(f, gone) ==
    IF gone = Some(TrackedRepo)
    THEN [p \in DOMAIN f |->
            IF p = TrackedA \/ (f[TrackedA].kind = "symlink"
                                  /\ p = f[TrackedA].to)
            THEN Absent ELSE f[p]]
    ELSE f

WithoutTracked(f, gone) ==
    IF gone = Some(TrackedRepo)
    THEN [p \in DOMAIN f |-> IF p = TrackedA THEN Absent ELSE f[p]]
    ELSE f

\* No RepoManager::new or delete_repo call made yet.  follows is the
\* repository that the call before a RepoManager::new removed, if any.
NoManagerCall ==
    [op |-> "none", ok |-> FALSE, err |-> "none", repo_name |-> <<>>,
     force |-> FALSE, line |-> <<>>, resolved |-> None, removed |-> None,
     commands |-> <<>>, follows |-> None,
     before |-> [root |-> TRUE, entries |-> <<>>, app_info |-> EmptyAppInfo,
                 info_file |-> EmptyAppInfo, fs |-> <<>>, records |-> <<>>,
                 hosted |-> {}]]

\* No manager was created: a root with nothing in it.
NoManager ==
    /\ root = TRUE
    /\ tree = <<>>
    /\ ready = FALSE
    /\ ops = 0
    /\ mgr_call = NoManagerCall

\* No sync_file invocation runs beside another.
NoRaces == procs = <<>>

\* Nothing happens outside the directory listing and the clone.
NoFiles ==
    NoMeta /\ NoLinks /\ NoTracking /\ NoAdds /\ NoManager /\ NoRaces

\* ------------------------------------------------------------------------
\* The version-control engine: what the git commands of sync_repo do
\* ------------------------------------------------------------------------

\* Diagnostics, as the words of the stderr text that the code searches.
StderrNone == <<>>
StderrNoRemoteRef == <<"fatal:", "couldn't", "find", "remote", "ref">>
StderrNetwork == <<"fatal:", "unable", "to", "access">>
StderrUnmerged == <<"error:", "unmerged", "files">>
StderrOverwritten == <<"error:", "local", "changes", "would", "be", "overwritten">>
StderrNonFastForward == <<"!", "rejected", "non-fast-forward">>
StderrFetchFirst == <<"!", "rejected", "fetch", "first">>
StderrHookDeclined == <<"!", "remote", "rejected", "hook", "declined">>
StderrNoSrcRef == <<"error:", "src", "refspec", "does", "not", "match", "any">>
StderrNothingToCommit == <<"nothing", "to", "commit">>

\* Commit identifiers not used by any history yet.
UnusedCommits == (1..MaxCommits) \ (localHist \cup remoteHist \cup mergeHead)

\* The identifier the next new commit gets.
FreshCommit == CHOOSE c \in UnusedCommits : \A d \in UnusedCommits : c <= d

\* The outcome of a git command: its exit status, its stderr, whether the
\* failure has a cause outside the clone and the remote branch (network,
\* credentials, a server-side hook), and the state it leaves.
Outcome(ok, stderr, external, hist, merging) ==
    [ok |-> ok, stderr |-> stderr, external |-> external,
     hist |-> hist, merging |-> merging]

\* git pull --no-rebase --allow-unrelated-histories origin <default_branch>:
\* fetch the remote branch and merge it into the checked-out branch.
GitPull ==
    LET unchanged(stderr, external) ==
            Outcome(FALSE, stderr, external, localHist, mergeHead)
    IN  {unchanged(StderrNetwork, TRUE)}
        \cup
        IF remoteHist = {} THEN {unchanged(StderrNoRemoteRef, FALSE)}
        ELSE IF mergeHead # {} THEN {unchanged(StderrUnmerged, FALSE)}
        ELSE IF remoteHist \subseteq localHist
        THEN {Outcome(TRUE, StderrNone, FALSE, localHist, {})}
        ELSE \* the merge has something to bring in
            (IF unstaged \/ staged
                THEN {unchanged(StderrOverwritten, FALSE)} ELSE {})
            \cup
            (IF localHist \subseteq remoteHist
                THEN \* fast-forward
                     {Outcome(TRUE, StderrNone, FALSE, remoteHist, {})}
                ELSE \* a true merge: a merge commit, or conflicts
                     {Outcome(FALSE, StderrNone, FALSE, localHist, remoteHist)}
                     \cup
                     (IF UnusedCommits # {}
                         THEN {Outcome(TRUE, StderrNone, FALSE,
                                   localHist \cup remoteHist \cup {FreshCommit},
                                   {})}
                         ELSE {}))

\* git push [-u] origin <default_branch>: accepted when the remote branch
\* can be fast-forwarded to the local head; `hist` is the remote history.
GitPush ==
    LET refused(stderr, external) ==
            Outcome(FALSE, stderr, external, remoteHist, mergeHead)
    IN  {refused(StderrNetwork, TRUE), refused(StderrHookDeclined, TRUE)}
        \cup
        IF localHist = {} THEN {refused(StderrNoSrcRef, FALSE)}
        ELSE IF remoteHist \subseteq localHist
        THEN {Outcome(TRUE, StderrNone, FALSE, localHist, mergeHead)}
        ELSE {refused(StderrNonFastForward, FALSE),
              refused(StderrFetchFirst, FALSE)}

\* git status --porcelain: one line per changed path, none for a clean tree.
StatusPorcelain ==
    IF unstaged \/ staged \/ mergeHead # {} THEN <<"M">> ELSE <<>>

\* ------------------------------------------------------------------------
\* RepoManager::sync_repo, one action per command it executes
\* ------------------------------------------------------------------------

ErrNoRemote == "has no remote origin configured"
ErrCreateBranch == "Failed to create branch"
ErrPull == "git pull failed"
ErrStatus == "Failed to check git status"
ErrAdd == "Failed to add changes"
ErrCommit == "Failed to commit changes"
ErrPush == "Failed to push to GitHub"
ErrPullMerge == "Failed to pull and merge"
ErrRetryPush == "Failed to push after merge"
\* the .context(..)? of a command that could not be run at all
ErrExec(step) ==
    CASE step = "remote_check" -> "Failed to check remote origin"
      [] step = "branch_check" -> "Failed to check current branch"
      [] step = "create_branch" -> "Failed to create default branch"
      [] step = "pull" -> "Failed to execute git pull"
      [] step = "status" -> "Failed to execute git status"
      [] step = "add" -> "Failed to execute git add"
      [] step = "commit" -> "Failed to execute git commit"
      [] step = "push" -> "Failed to execute git push"
      [] step = "pull_merge" -> "Failed to execute git pull for merge"
      [] step = "retry_push" -> "Failed to execute retry git push"

\* The names a caller passes to sync_repo.
SyncArgs == {Alpha, Beta}

Finish(r) == pc' = "done" /\ result' = r
Goto(step) == pc' = step /\ UNCHANGED result
Log(step, out, stderr) ==
    trace' = Append(trace, [step |-> step, out |-> out, stderr |-> stderr])
Status(ok) == IF ok THEN "ok" ELSE "fail"

\* Command::output() fails: the command was not run; the error propagates.
NotSpawned(step) ==
    /\ Finish(ErrExec(step))
    /\ Log(step, "exec", StderrNone)
    /\ faulted' = TRUE
    /\ UNCHANGED <<gitvars, has_changes>>

\* The entry of sync_repo: the name is resolved against the directory
\* listing (a resolved name is a listed directory, so repo_path.exists()).
SyncStart ==
    /\ pc \in {"idle", "done"}
    /\ runs < MaxRuns
    /\ runs' = runs + 1
    /\ trace' = <<>>
    /\ faulted' = FALSE
    /\ envChanged' = FALSE
    /\ prevQuiet' = (pc = "done" /\ result = "Ok" /\ ~envChanged)
    /\ has_changes' = FALSE
    /\ \E repo_name \in SyncArgs :
          LET actual == find_repository(list_repos(repos_dir), repo_name)
          IN  /\ partial_name' = repo_name
              /\ found' = actual
              /\ IF actual.kind = "Ok"
                    THEN pc' = "remote_check" /\ result' = "none"
                    ELSE Finish(actual.kind)
    /\ UNCHANGED <<repos_dir, gitvars>>
    /\ UNCHANGED fvars

\* if !remote_check.status.success() { return Err(..no remote origin..) }
RemoteConfiguredAlways(status_success) == TRUE

RemoteConfigured(status_success) == status_success

\* git remote get-url origin
RemoteCheck ==
    /\ pc = "remote_check"
    /\ \/ /\ Log("remote_check", Status(hasRemote), StderrNone)
          /\ IF RemoteConfigured(hasRemote)
                THEN Goto("branch_check")
                ELSE Finish(ErrNoRemote)
          /\ UNCHANGED <<gitvars, has_changes, faulted>>
       \/ NotSpawned("remote_check")
    /\ UNCHANGED <<rvars, runs, envChanged, prevQuiet>>
    /\ UNCHANGED fvars

\* git rev-parse --verify <default_branch>
BranchCheck ==
    /\ pc = "branch_check"
    /\ \/ /\ Log("branch_check", Status(branchExists), StderrNone)
          /\ Goto(IF branchExists THEN "pull" ELSE "create_branch")
          /\ UNCHANGED <<gitvars, has_changes, faulted>>
       \/ NotSpawned("branch_check")
    /\ UNCHANGED <<rvars, runs, envChanged, prevQuiet>>
    /\ UNCHANGED fvars

\* The exit status of git checkout -b not looked at.
BranchCreatedAlways(status_success) == TRUE

\* if !create_branch.status.success() { return Err(..create branch..) }
BranchCreated(status_success) == status_success

\* git checkout -b <default_branch>
CreateBranch ==
    /\ pc = "create_branch"
    /\ \/ /\ Log("create_branch", "ok", StderrNone)
          /\ branchExists' = TRUE
          /\ Goto("pull")
          /\ UNCHANGED <<hasRemote, localHist, remoteHist, unstaged, staged,
                         mergeHead, upstream, has_changes, faulted>>
       \/ /\ Log("create_branch", "fail", StderrNone)
          /\ IF BranchCreated(FALSE)
                THEN Goto("pull")
                ELSE Finish(ErrCreateBranch)
          /\ faulted' = TRUE
          /\ UNCHANGED <<gitvars, has_changes>>
       \/ NotSpawned("create_branch")
    /\ UNCHANGED <<rvars, runs, envChanged, prevQuiet>>
    /\ UNCHANGED fvars

\* The effect of a pull on the clone.
ApplyPull(r) ==
    /\ localHist' = r.hist
    /\ mergeHead' = r.merging
    /\ UNCHANGED <<hasRemote, branchExists, remoteHist, unstaged, staged,
                   upstream>>

\* A failed first pull stops the run only when its message is unexpected.
PullFailureContinuesIfExpected(stderr) ==
    \/ Contains(stderr, <<"no", "upstream">>)
    \/ Contains(stderr, <<"couldn't", "find", "remote", "ref">>)

\* if !pull_output.status.success(): both branches print and go on.
PullFailureContinues(stderr) ==
    IF \/ Contains(stderr, <<"no", "upstream">>)
       \/ Contains(stderr, <<"couldn't", "find", "remote", "ref">>)
    THEN TRUE   \* "Setting up upstream branch..."
    ELSE TRUE   \* "Warning: git pull failed: .."

\* git pull --no-rebase --allow-unrelated-histories origin <default_branch>
Pull ==
    /\ pc = "pull"
    /\ \/ \E r \in GitPull :
            /\ ApplyPull(r)
            /\ Log("pull", Status(r.ok), r.stderr)
            /\ faulted' = (faulted \/ r.external)
            /\ IF r.ok \/ PullFailureContinues(r.stderr)
                  THEN Goto("status")
                  ELSE Finish(ErrPull)
            /\ UNCHANGED has_changes
       \/ NotSpawned("pull")
    /\ UNCHANGED <<rvars, runs, envChanged, prevQuiet>>
    /\ UNCHANGED fvars

\* has_changes taken to be true whatever git status printed.
HasChangesAlways(stdout) == TRUE

\* has_changes taken to be false whatever git status printed.
HasChangesNever(stdout) == FALSE

\* let has_changes = !status_output.stdout.is_empty();
HasChanges(stdout) == stdout # <<>>

\* git status --porcelain
GitStatus ==
    /\ pc = "status"
    /\ \/ /\ Log("status", "ok", StderrNone)
          /\ has_changes' = HasChanges(StatusPorcelain)
          /\ Goto(IF has_changes' THEN "add" ELSE "push")
          /\ UNCHANGED <<gitvars, faulted>>
       \/ /\ Log("status", "fail", StderrNone)
          /\ Finish(ErrStatus)
          /\ faulted' = TRUE
          /\ UNCHANGED <<gitvars, has_changes>>
       \/ NotSpawned("status")
    /\ UNCHANGED <<rvars, runs, envChanged, prevQuiet>>
    /\ UNCHANGED fvars

\* A failure to stage or to commit is reported, and the run goes on to push.
StageFailureIsFatalNot == FALSE

\* if !add_output.status.success() { return Err(..) }, and the same for
\* commit_output: the run ends there.
StageFailureIsFatal == TRUE

AfterStageFailure(err) ==
    IF StageFailureIsFatal THEN Finish(err) ELSE Goto("push")

\* git add .
Add ==
    /\ pc = "add"
    /\ \/ /\ Log("add", "ok", StderrNone)
          /\ staged' = (staged \/ unstaged)
          /\ unstaged' = FALSE
          /\ Goto("commit")
          /\ UNCHANGED <<hasRemote, branchExists, localHist, remoteHist,
                         mergeHead, upstream, faulted>>
       \/ /\ Log("add", "fail", StderrNone)
          /\ AfterStageFailure(ErrAdd)
          /\ faulted' = TRUE
          /\ UNCHANGED gitvars
       \/ NotSpawned("add")
    /\ UNCHANGED <<rvars, has_changes, runs, envChanged, prevQuiet>>
    /\ UNCHANGED fvars

\* git commit -m "Update synced files"
Commit ==
    /\ pc = "commit"
    /\ \/ /\ staged \/ mergeHead # {}
          /\ UnusedCommits # {}
          /\ Log("commit", "ok", StderrNone)
          /\ localHist' = localHist \cup mergeHead \cup {FreshCommit}
          /\ staged' = FALSE
          /\ mergeHead' = {}
          /\ Goto("push")
          /\ UNCHANGED <<hasRemote, branchExists, remoteHist, unstaged,
                         upstream, faulted>>
       \/ /\ ~(staged \/ mergeHead # {})
          /\ Log("commit", "fail", StderrNothingToCommit)
          /\ AfterStageFailure(ErrCommit)
          /\ UNCHANGED <<gitvars, faulted>>
       \/ /\ Log("commit", "fail", StderrNone)
          /\ AfterStageFailure(ErrCommit)
          /\ faulted' = TRUE
          /\ UNCHANGED gitvars
       \/ NotSpawned("commit")
    /\ UNCHANGED <<rvars, has_changes, runs, envChanged, prevQuiet>>
    /\ UNCHANGED fvars

\* The effect of an accepted push on the remote.
ApplyPush(r, set_upstream) ==
    /\ remoteHist' = r.hist
    /\ upstream' = (upstream \/ (r.ok /\ set_upstream))
    /\ UNCHANGED <<hasRemote, branchExists, localHist, unstaged, staged,
                   mergeHead>>

\* The exit status of the first push not looked at.
PushSucceededAlways(status_success) == TRUE

\* if !push_output.status.success() { .. } else { "Pushed changes" }
PushSucceeded(status_success) == status_success

\* stderr.contains("non-fast-forward") || stderr.contains("rejected")
PushRejected(stderr) ==
    \/ Contains(stderr, <<"non-fast-forward">>)
    \/ Contains(stderr, <<"rejected">>)

\* git push -u origin <default_branch>
Push ==
    /\ pc = "push"
    /\ \/ \E r \in GitPush :
            /\ ApplyPush(r, TRUE)
            /\ Log("push", Status(r.ok), r.stderr)
            /\ faulted' = (faulted \/ r.external)
            /\ IF PushSucceeded(r.ok) THEN Finish("Ok")
               ELSE IF PushRejected(r.stderr) THEN Goto("pull_merge")
               ELSE Finish(ErrPush)
            /\ UNCHANGED has_changes
       \/ NotSpawned("push")
    /\ UNCHANGED <<rvars, runs, envChanged, prevQuiet>>
    /\ UNCHANGED fvars

\* git pull --no-rebase --allow-unrelated-histories origin <default_branch>,
\* after a rejected push
PullMerge ==
    /\ pc = "pull_merge"
    /\ \/ \E r \in GitPull :
            /\ ApplyPull(r)
            /\ Log("pull_merge", Status(r.ok), r.stderr)
            /\ faulted' = (faulted \/ r.external)
            /\ IF r.ok THEN Goto("retry_push") ELSE Finish(ErrPullMerge)
            /\ UNCHANGED has_changes
       \/ NotSpawned("pull_merge")
    /\ UNCHANGED <<rvars, runs, envChanged, prevQuiet>>
    /\ UNCHANGED fvars

\* A rejected retry push starts another recovery cycle.
RetryAgainWhenRejected(stderr) == PushRejected(stderr)

\* if !retry_push_output.status.success() { return Err(..) }: no failure of
\* the retry push leads to another cycle.
RetryAgain(stderr) == FALSE

\* git push origin <default_branch>, the retry
RetryPush ==
    /\ pc = "retry_push"
    /\ \/ \E r \in GitPush :
            /\ ApplyPush(r, FALSE)
            /\ Log("retry_push", Status(r.ok), r.stderr)
            /\ faulted' = (faulted \/ r.external)
            /\ IF r.ok THEN Finish("Ok")
               ELSE IF RetryAgain(r.stderr) THEN Goto("pull_merge")
               ELSE Finish(ErrRetryPush)
            /\ UNCHANGED has_changes
       \/ NotSpawned("retry_push")
    /\ UNCHANGED <<rvars, runs, envChanged, prevQuiet>>
    /\ UNCHANGED fvars

\* ------------------------------------------------------------------------
\* The environment of a run
\* ------------------------------------------------------------------------

\* The user (or a program writing through a link) changes a tracked file.
LocalEdit ==
    /\ ~unstaged \/ ~envChanged
    /\ unstaged' = TRUE
    /\ envChanged' = TRUE
    /\ UNCHANGED <<rvars, hasRemote, branchExists, localHist, remoteHist,
                   staged, mergeHead, upstream, svars, runs, trace, faulted,
                   prevQuiet>>
    /\ UNCHANGED fvars

\* Another clone pushes a commit to the remote's default branch.
RemoteAdvance ==
    /\ hasRemote
    /\ UnusedCommits # {}
    /\ remoteHist' = remoteHist \cup {FreshCommit}
    /\ envChanged' = TRUE
    /\ UNCHANGED <<rvars, hasRemote, branchExists, localHist, unstaged,
                   staged, mergeHead, upstream, svars, runs, trace, faulted,
                   prevQuiet>>
    /\ UNCHANGED fvars

\* No sync_repo run yet, on a clone in any of the states add_repo (complete
\* or failed part-way) and a changed configuration can leave behind.
SyncInit ==
    /\ hasRemote \in BOOLEAN
    /\ branchExists \in BOOLEAN
    /\ localHist \in {{}, {1}}
    /\ branchExists => localHist # {}
    /\ remoteHist \in {{}, {1}, {2}}
    /\ ~hasRemote => remoteHist = {}
    /\ unstaged \in BOOLEAN
    /\ staged = FALSE
    /\ mergeHead = {}
    /\ upstream \in BOOLEAN
    /\ upstream => (hasRemote /\ branchExists)
    /\ pc = "idle"
    /\ result = "none"
    /\ has_changes = FALSE
    /\ runs = 0
    /\ trace = <<>>
    /\ faulted = FALSE
    /\ envChanged = FALSE
    /\ prevQuiet = FALSE

Init ==
    /\ repos_dir = {Alpha}
    /\ partial_name = <<>>
    /\ found = Unresolved
    /\ SyncInit
    /\ NoFiles

Next ==
    \/ SyncStart
    \/ RemoteCheck
    \/ BranchCheck
    \/ CreateBranch
    \/ Pull
    \/ GitStatus
    \/ Add
    \/ Commit
    \/ Push
    \/ PullMerge
    \/ RetryPush
    \/ LocalEdit
    \/ RemoteAdvance

Spec == Init /\ [][Next]_vars

\* ------------------------------------------------------------------------
\* The resolver's specification: directories come and go under the
\* repository root, and names are resolved against the current listing.
\* ------------------------------------------------------------------------

\* add_repo creates the directory of a new repository.
CreateRepoDir ==
    /\ Cardinality(repos_dir) < MaxRepos
    /\ \E name \in RepoNames \ repos_dir :
          repos_dir' = repos_dir \cup {name}
    /\ partial_name' = <<>>
    /\ found' = Unresolved
    /\ UNCHANGED <<gitvars, svars, hvars>>
    /\ UNCHANGED fvars

\* delete_repo removes the directory of a repository.
RemoveRepoDir ==
    /\ \E name \in repos_dir : repos_dir' = repos_dir \ {name}
    /\ partial_name' = <<>>
    /\ found' = Unresolved
    /\ UNCHANGED <<gitvars, svars, hvars>>
    /\ UNCHANGED fvars

\* A call of find_repository.
Resolve ==
    /\ \E partial \in PartialNames :
          /\ partial_name' = partial
          /\ found' = find_repository(list_repos(repos_dir), partial)
    /\ UNCHANGED <<repos_dir, gitvars, svars, hvars>>
    /\ UNCHANGED fvars

\* The resolver is a pure function of the listing: no clone is synchronized.
NoSync ==
    /\ hasRemote = FALSE /\ branchExists = FALSE
    /\ localHist = {} /\ remoteHist = {}
    /\ unstaged = FALSE /\ staged = FALSE /\ mergeHead = {}
    /\ upstream = FALSE
    /\ pc = "idle" /\ result = "none" /\ has_changes = FALSE
    /\ runs = 0 /\ trace = <<>> /\ faulted = FALSE
    /\ envChanged = FALSE /\ prevQuiet = FALSE

ResolveInit ==
    /\ repos_dir = {}
    /\ partial_name = <<>>
    /\ found = Unresolved
    /\ NoSync
    /\ NoFiles

ResolveNext == CreateRepoDir \/ RemoveRepoDir \/ Resolve

ResolveSpec == ResolveInit /\ [][ResolveNext]_vars

\* ------------------------------------------------------------------------
\* The metadata record's specification: calls of add_file, remove_file and
\* get_file on a record that starts empty.
\* ------------------------------------------------------------------------

\* The state of every component but the metadata record.
nonMeta == <<rvars, gitvars, svars, hvars, lvars, tvars, avars, dvars,
            pvars>>

AddFile ==
    /\ uuids < MaxUuids
    /\ uuids' = uuids + 1
    /\ \E original_path \in MetaPaths, synced_path \in TrackedPaths,
          is_directory \in BOOLEAN :
          /\ metadata' = add_file(metadata, original_path, synced_path,
                                  is_directory, uuids')
          /\ Called("add_file", original_path, synced_path, is_directory,
                    uuids', None)
    /\ UNCHANGED nonMeta

RemoveFile ==
    /\ \E original_path \in MetaPaths :
          /\ metadata' = remove_file(metadata, original_path)
          /\ Called("remove_file", original_path, <<>>, FALSE, 0,
                    removed(metadata, original_path))
    /\ UNCHANGED <<uuids, nonMeta>>

GetFile ==
    /\ \E original_path \in MetaPaths :
          Called("get_file", original_path, <<>>, FALSE, 0,
                 get_file(metadata, original_path))
    /\ UNCHANGED <<metadata, uuids, nonMeta>>

MetaInit ==
    /\ repos_dir = {}
    /\ partial_name = <<>>
    /\ found = Unresolved
    /\ NoSync
    /\ NoFiles

MetaNext == AddFile \/ RemoveFile \/ GetFile

MetaSpec == MetaInit /\ [][MetaNext]_vars

\* ------------------------------------------------------------------------
\* The linking specification: create_link as sync_file and sync_from_remote
\* call it, among files that are created, written and deleted.
\* ------------------------------------------------------------------------

\* The state of every component but the file system.
nonLink == <<rvars, gitvars, svars, hvars, mvars, tvars, avars, dvars,
            pvars>>

\* sync_file links the canonical form of an existing user path to the
\* tracked path of its file name; sync_from_remote links an existing
\* tracked path to a user path at which nothing exists.
LinkArgs ==
    {<<canonicalize(fs, p), TrackedA>> : p \in {q \in UserPaths : exists(fs, q)}}
    \cup {<<TrackedA, p>> : p \in {q \in UserPaths :
                                     exists(fs, TrackedA) /\ ~exists(fs, q)}}

CreateLink ==
    /\ \E args \in LinkArgs, faults \in FaultSets :
          LET original == args[1]
              link == args[2]
              r == create_link(fs, files_dir, original, link, faults)
          IN  /\ fs' = r.fs
              /\ content' = ContentAfter(content, r.fs)
              /\ files_dir' = r.files_dir
              /\ linked' = [op |-> "create_link", original |-> original,
                            link |-> link, ok |-> r.ok, calls |-> r.calls,
                            faulted |-> faults # {},
                            found |-> KindAt(fs, link),
                            original_is_dir |-> is_dir(fs, original),
                            had |-> Read(fs, content, original),
                            written |-> {}]
    /\ UNCHANGED nonLink

\* A regular file appears at a path: the user creates it, or a pull checks
\* it out under the files directory.
MakeFile ==
    /\ FreeInodes(fs) # {}
    /\ \E path \in FsPaths, data \in Data :
          /\ fs[path].kind = "absent"
          /\ fs' = [fs EXCEPT ![path] = RegularFile(FreshInode(fs))]
          /\ content' = [content EXCEPT ![FreshInode(fs)] = data]
          /\ files_dir' = (files_dir \/ ParentIsFilesDir(path))
    /\ linked' = NoLink
    /\ UNCHANGED nonLink

\* A directory appears at a path, likewise.
MakeDir ==
    /\ FreeInodes(fs) # {}
    /\ \E path \in FsPaths, data \in Data :
          /\ fs[path].kind = "absent"
          /\ fs' = [fs EXCEPT ![path] = Directory(FreshInode(fs))]
          /\ content' = [content EXCEPT ![FreshInode(fs)] = data]
          /\ files_dir' = (files_dir \/ ParentIsFilesDir(path))
    /\ linked' = NoLink
    /\ UNCHANGED nonLink

\* Failures for an outside cause, a default branch other than "main" and
\* the changes that the user makes are followed through the first two
\* calls of a behaviour.
EarlyCall == syncs < 2

\* The user deletes what is at one of their paths.
Delete ==
    /\ EarlyCall
    /\ \E path \in UserPaths :
          /\ fs[path].kind # "absent"
          /\ fs' = [fs EXCEPT ![path] = Absent]
          /\ content' = ContentAfter(content, fs')
    /\ linked' = NoLink
    /\ UNCHANGED <<files_dir, nonLink>>

\* A write in place through a path: the object it leads to is changed.
WriteThrough ==
    /\ \E path \in FsPaths, data \in Data :
          /\ exists(fs, path)
          /\ content[Stat(fs, path).ino] # data
          /\ content' = [content EXCEPT ![Stat(fs, path).ino] = data]
          /\ linked' = IF linked.op = "create_link"
                          THEN [linked EXCEPT !.written = @ \cup {path}]
                          ELSE linked
    /\ UNCHANGED <<fs, files_dir, nonLink>>

LinkInit ==
    /\ repos_dir = {}
    /\ partial_name = <<>>
    /\ found = Unresolved
    /\ NoSync
    /\ NoFiles

LinkNext == CreateLink \/ MakeFile \/ MakeDir \/ Delete \/ WriteThrough

LinkSpec == LinkInit /\ [][LinkNext]_vars

\* ------------------------------------------------------------------------
\* The tracking specification: sync_file and sync_from_remote run from two
\* user directories on one repository, among files that come and go.
\* ------------------------------------------------------------------------

\* The state that sync_file and sync_from_remote leave alone here, but
\* for sync_file's update of AppInfo.
nonInfo == <<partial_name, found, gitvars, svars, hvars, metadata, call,
             linked, elsewhere, clones, hosted, adds, add_call, dvars, pvars>>
nonTrack == <<nonInfo, app_info, info_file>>

\* let file_count = .. fs::read_dir(&files_dir) .. entries.count()
FileCount(f) == Cardinality({p \in {TrackedA} : f[p].kind # "absent"})

\* update_repository reached whatever step sync_file ended at.
InfoAfter_Always(r, repo_name) ==
    update_repository(app_info, repo_name, FileCount(r.fs))

\* self.app_info.update_repository(repo_name, file_count)?, the last step
\* of sync_file: AppInfo in memory, and the info file when it is saved.
InfoAfter(r, repo_name) ==
    IF r.ok \/ r.err = "Failed to write app info"
    THEN update_repository(app_info, repo_name, FileCount(r.fs))
    ELSE app_info

SyncFile ==
    /\ syncs < MaxSyncs
    /\ syncs' = syncs + 1
    /\ \E current_dir \in UserDirs, file_path \in UserPaths,
          repo_name \in SyncArgs, fault \in SyncFaults \ {"sync_repo"},
          default_branch \in Branches :
          LET r == sync_file(fs, files_dir, records, uuids, current_dir,
                             file_path, repo_name, repo_name \in repos_dir,
                             fault)
          IN  /\ fault # "none" => default_branch = "main" /\ EarlyCall
              /\ fault # "none" => repo_name \in repos_dir
              /\ default_branch # "main" => EarlyCall
              /\ fs' = r.fs
              /\ content' = ContentAfter(content, r.fs)
              /\ files_dir' = r.files_dir
              /\ records' = r.records
              /\ uuids' = r.uuids
              /\ app_info' = InfoAfter(r, repo_name)
              /\ info_file' = IF r.ok THEN app_info' ELSE info_file
              /\ sync_call' =
                    [op |-> "sync_file", current_dir |-> current_dir,
                     file_path |-> file_path,
                     original_path |-> canonicalize(fs, file_path),
                     ok |-> r.ok, err |-> r.err, steps |-> r.steps,
                     default_branch |-> default_branch,
                     commands |-> r.commands]
    /\ UNCHANGED <<repos_dir, nonInfo>>

\* The tree after the pull of sync_repo: as it was, or with a regular
\* file checked out at the tracked path.
Pulled(f, pulled) ==
    IF pulled /\ f[TrackedA].kind = "absent" /\ FreeInodes(f) # {}
    THEN [f EXCEPT ![TrackedA] = RegularFile(FreshInode(f))]
    ELSE f

\* The content of the files of a user and of a checkout in this
\* specification, where no content is read.
SomeData == "x"

SyncFromRemote ==
    /\ syncs < MaxSyncs
    /\ syncs' = syncs + 1
    /\ \E current_dir \in UserDirs, repo_name \in repos_dir,
          fault \in SyncFaults, pulled \in BOOLEAN,
          default_branch \in Branches :
          LET filename == <<"a">>
              f == Pulled(fs, pulled)
              c == [i \in Inodes |->
                       IF i \in InodesInUse(f) \ InodesInUse(fs)
                          THEN SomeData ELSE content[i]]
              r == sync_from_remote(f, files_dir \/ f # fs, records, uuids,
                                    current_dir, filename, repo_name,
                                    default_branch, fault)
          IN  /\ fault # "none" => default_branch = "main" /\ EarlyCall
              /\ default_branch # "main" => EarlyCall
              /\ fs' = r.fs
              /\ content' = ContentAfter(c, r.fs)
              /\ files_dir' = r.files_dir
              /\ records' = r.records
              /\ uuids' = r.uuids
              /\ sync_call' =
                    [op |-> "sync_from_remote", current_dir |-> current_dir,
                     file_path |-> Join(current_dir, filename),
                     original_path |-> Join(current_dir, filename),
                     ok |-> r.ok, err |-> r.err, steps |-> r.steps,
                     default_branch |-> default_branch,
                     commands |-> r.commands]
    /\ UNCHANGED <<repos_dir, nonTrack>>

\* The user creates a file or a directory at one of their paths.
UserCreates ==
    /\ EarlyCall
    /\ FreeInodes(fs) # {}
    /\ \E path \in UserPaths, node \in {RegularFile(FreshInode(fs)),
                                         Directory(FreshInode(fs))} :
          /\ fs[path].kind = "absent"
          /\ fs' = [fs EXCEPT ![path] = node]
          /\ content' = [content EXCEPT ![FreshInode(fs)] = SomeData]
    /\ UNCHANGED <<files_dir, linked, nonLink>>

\* AppInfo once add_repo has made the repository.
TrackedInfo == add_repository(EmptyAppInfo, Alpha, Some(CloneUrl(Alpha)))

TrackInit ==
    /\ repos_dir = {Alpha}
    /\ partial_name = <<>>
    /\ found = Unresolved
    /\ NoSync
    /\ NoMeta /\ NoLinks /\ NoTracking /\ NoManager /\ NoRaces
    /\ elsewhere = {}
    /\ clones = <<>>
    /\ hosted = {}
    /\ adds = 0
    /\ add_call = NoAddCall
    /\ app_info = TrackedInfo
    /\ info_file = TrackedInfo

TrackNext == SyncFile \/ SyncFromRemote \/ UserCreates \/ Delete

TrackSpec == TrackInit /\ [][TrackNext]_vars

\* ------------------------------------------------------------------------
\* The creation specification: add_repo called with valid and invalid
\* names, while repositories appear on the remote host.
\* ------------------------------------------------------------------------

\* The state that add_repo leaves alone.
nonAdd ==
    <<partial_name, found, gitvars, svars, hvars, mvars, lvars, tvars, dvars,
      pvars>>

CurrentAddState ==
    AddState(repos_dir, elsewhere, clones, hosted, app_info, info_file)

\* The call gets past the checks of the name and of the directory, to the
\* steps that can fail for an outside cause; the outcome of the pull is
\* open only when the repository was on the remote host before.
PassesChecks(repo_name) ==
    /\ ~TrimIsEmpty(repo_name)
    /\ NameHasNoSeparator(repo_name)
    /\ ~TargetExists(get_repo_path(repo_name), CurrentAddState)

AddRepo ==
    /\ adds < MaxAdds
    /\ adds' = adds + 1
    /\ \E repo_name \in AddNames, fault \in AddFaults, pull_ok \in BOOLEAN :
          LET r == add_repo(CurrentAddState, repo_name, fault, pull_ok)
          IN  /\ PassesChecks(repo_name) \/ fault = "none"
              /\ repo_name \in hosted \/ pull_ok
              /\ repos_dir' = r.state.repos_dir
              /\ elsewhere' = r.state.elsewhere
              /\ clones' = r.state.clones
              /\ hosted' = r.state.hosted
              /\ app_info' = r.state.app_info
              /\ info_file' = r.state.info_file
              /\ add_call' = [op |-> "add_repo", repo_name |-> repo_name,
                              ok |-> r.ok, err |-> r.err,
                              requests |-> r.requests,
                              create_error |-> r.create_error,
                              clone_url |-> r.clone_url,
                              commands |-> r.commands,
                              before |-> CurrentAddState]
    /\ UNCHANGED nonAdd

\* A repository of the user is created on the remote host by other means.
HostedElsewhere ==
    /\ adds < MaxAdds
    /\ \E repo_name \in {<<"a">>, <<"b">>} \ hosted :
          hosted' = hosted \cup {repo_name}
    /\ add_call' = NoAddCall
    /\ UNCHANGED <<repos_dir, elsewhere, clones, app_info, info_file, adds,
                   nonAdd>>

AddInit ==
    /\ repos_dir = {}
    /\ partial_name = <<>>
    /\ found = Unresolved
    /\ NoSync
    /\ NoFiles

AddNext == AddRepo \/ HostedElsewhere

AddSpec == AddInit /\ [][AddNext]_vars

\* ------------------------------------------------------------------------
\* The management specification: runs of the tool that create a
\* RepoManager (which refreshes AppInfo from the disk) and then call
\* delete_repo, on the disks and info files that earlier runs can leave.
\* ------------------------------------------------------------------------

\* The state that RepoManager::new and delete_repo leave alone.
nonManage ==
    <<partial_name, found, gitvars, svars, hvars, mvars, linked, syncs,
      sync_call, elsewhere, clones, adds, add_call, pvars>>

\* The state a call starts from, as the properties read it.
ManagerState ==
    [root |-> root, entries |-> tree, app_info |-> app_info,
     info_file |-> info_file, fs |-> fs, records |-> records,
     hosted |-> hosted]

\* The first run of the tool, in which every answer and every failure is
\* tried; later runs are given no answer and meet no failure.
FirstRun == ops < 2

\* The steps of RepoManager::new that can fail for an outside cause.
NewFaults == {"none", "create_dir_all", "load", "save_info"}

\* RepoManager::new: the root is created when missing, AppInfo is loaded
\* from info.json and refreshed from the disk.  raced: the root is removed
\* by other means after line 21 and before the scan finds it.
NewManager ==
    /\ ops < MaxOps
    /\ ops' = ops + 1
    /\ \E fault \in NewFaults, raced \in BOOLEAN :
          LET loaded == info_file
              scanned_root == ~raced
              scanned == IF raced THEN <<>> ELSE tree
              refreshed == refresh_from_disk(loaded, scanned_root, scanned)
              saving == scanned_root
              err == IF ~root /\ fault = "create_dir_all"
                        THEN "Failed to create repos directory"
                     ELSE IF fault = "load" THEN "Failed to parse info file"
                     ELSE IF saving /\ fault = "save_info"
                        THEN "Failed to write info file"
                     ELSE "Ok"
              reached == err \in {"Ok", "Failed to write info file"}
          IN  /\ raced => fault = "none"
              /\ fault = "create_dir_all" => ~root
              /\ (raced \/ fault # "none") => FirstRun
              /\ root' = IF err = "Failed to create repos directory"
                            THEN FALSE ELSE scanned_root
              /\ tree' = scanned
              /\ repos_dir' = Subdirectories(scanned)
              /\ fs' = IF raced THEN WithoutTracked(fs, Some(TrackedRepo))
                                ELSE fs
              /\ content' = ContentAfter(content, fs')
              /\ files_dir' = (files_dir /\ ~raced)
              /\ records' = IF raced THEN [records EXCEPT ![RepoDir] = new]
                                     ELSE records
              /\ app_info' = IF reached THEN refreshed ELSE app_info
              /\ info_file' = IF err = "Ok" /\ saving THEN refreshed
                                                      ELSE info_file
              /\ ready' = (err = "Ok")
              /\ mgr_call' =
                    [op |-> "new", ok |-> err = "Ok", err |-> err,
                     repo_name |-> <<>>, force |-> FALSE, line |-> <<>>,
                     resolved |-> None, removed |-> None,
                     commands |-> <<>>, follows |-> mgr_call.removed,
                     before |-> [ManagerState EXCEPT
                                    !.root = scanned_root,
                                    !.entries = scanned,
                                    !.app_info = loaded]]
    /\ UNCHANGED <<hosted, nonManage>>

\* The names given to delete_repo.
DeleteArgs == EntryNames \cup {<<>>, TrackedRepo \o OtherRepo}

\* delete_repo, the one command of a run.
DeleteRepo ==
    /\ ready
    /\ ops < MaxOps
    /\ ops' = ops + 1
    /\ ready' = FALSE
    /\ \E repo_name \in DeleteArgs, force \in BOOLEAN, line \in Lines,
          fault \in DeleteFaults :
          LET r == delete_repo(tree, app_info, info_file, repo_name, force,
                               line, fault)
              resolved ==
                  find_repository(list_repos(Subdirectories(tree)), repo_name)
          IN  /\ force => line = <<>>
              /\ (~force \/ fault # "none") => FirstRun
              /\ ~force => repo_name = TrackedRepo
              /\ fault # "none" => repo_name = TrackedRepo
              /\ tree' = WithoutEntry(tree, r.removed)
              /\ repos_dir' = Subdirectories(tree')
              /\ fs' = WithoutTracked(fs, r.removed)
              /\ content' = ContentAfter(content, fs')
              /\ files_dir' = (files_dir /\ r.removed # Some(TrackedRepo))
              /\ records' = IF r.removed = Some(TrackedRepo)
                               THEN [records EXCEPT ![RepoDir] = new]
                               ELSE records
              /\ app_info' = r.app_info
              /\ info_file' = r.info_file
              /\ mgr_call' =
                    [op |-> "delete_repo", ok |-> r.ok, err |-> r.err,
                     repo_name |-> repo_name, force |-> force,
                     line |-> line,
                     resolved |-> IF resolved.kind = "Ok"
                                     THEN Some(resolved.name) ELSE None,
                     removed |-> r.removed, commands |-> r.commands,
                     follows |-> None,
                     before |-> ManagerState]
    /\ UNCHANGED <<root, hosted, nonManage>>

\* What earlier sync_file and sync_from_remote runs left of one file name:
\* nothing; a user's file with its tracked copy; a user's directory with
\* the link to it; a tracked file linked into a user directory, by a hard
\* link or by a symbolic link.
Untracked ==
    [fs |-> [p \in FsPaths |-> Absent], records |-> [d \in RecordDirs |-> new]]
AfterSyncFile(node) ==
    LET r == sync_file([Untracked.fs EXCEPT ![OriginalU] = node], FALSE,
                       Untracked.records, 0, UserDirU, OriginalU,
                       TrackedRepo, TRUE, "none")
    IN  [fs |-> r.fs, records |-> r.records]
AfterSyncFromRemote(fault) ==
    LET r == sync_from_remote(
                 [Untracked.fs EXCEPT ![TrackedA] = RegularFile(1)], TRUE,
                 Untracked.records, 0, UserDirV, <<"a">>, TrackedRepo, "main",
                 fault)
    IN  [fs |-> r.fs, records |-> r.records]
TrackingStates ==
    {Untracked, AfterSyncFile(RegularFile(1)), AfterSyncFile(Directory(1)),
     AfterSyncFromRemote("none"), AfterSyncFromRemote("hard_link")}

ManagerInit ==
    /\ partial_name = <<>>
    /\ found = Unresolved
    /\ NoSync
    /\ NoMeta
    /\ linked = NoLink
    /\ syncs = 0
    /\ sync_call = NoSyncCall
    /\ elsewhere = {}
    /\ clones = <<>>
    /\ adds = 0
    /\ add_call = NoAddCall
    /\ root \in BOOLEAN
    /\ \E S \in SUBSET EntryNames :
          tree \in {t \in [S -> UNION {DirEntries(n) : n \in S}
                                    \cup {StrayFile}] :
                      \A n \in S : IF n = StrayName THEN t[n] = StrayFile
                                   ELSE t[n] \in DirEntries(n)}
    /\ ~root => tree = <<>>
    /\ repos_dir = Subdirectories(tree)
    /\ hosted = {n \in repos_dir : tree[n].remote # None}
    /\ app_info = EmptyAppInfo
    /\ info_file \in StoredInfos
    /\ \E t \in TrackingStates :
          /\ fs = t.fs
          /\ records = t.records
          /\ t.fs[TrackedA].kind # "absent"
                => /\ TrackedRepo \in repos_dir
                   /\ tree[TrackedRepo].files_dir
                   /\ tree[TrackedRepo].file_count >= 1
          /\ t # Untracked => info_file = EmptyAppInfo
    /\ content = [i \in Inodes |->
                    IF i \in InodesInUse(fs) THEN SomeData ELSE NoData]
    /\ files_dir = (TrackedRepo \in repos_dir /\ tree[TrackedRepo].files_dir)
    /\ ready = FALSE
    /\ ops = 0
    /\ mgr_call = NoManagerCall
    /\ NoRaces

ManagerNext == NewManager \/ DeleteRepo

ManagerSpec == ManagerInit /\ [][ManagerNext]_vars

\* ------------------------------------------------------------------------
\* The concurrency specification: several sync_file invocations (one
\* process of the tool each) that run at the same time on one repository.
\* A process takes one step at each read and each write of a .gitbox file;
\* the code takes no lock and what lies between them touches no record.
\* ------------------------------------------------------------------------

\* sync_file invocations running at the same time
MaxProcs == 2

Procs == 1..MaxProcs

\* The file that each invocation is given: files of different names.
RacePath(p) ==
    IF p = 1 THEN Join(UserDirU, <<"a">>)
    ELSE IF p = 2 THEN Join(UserDirU, <<"b">>)
    ELSE Join(UserDirV, <<"b">>)

\* An invocation that has not read anything yet.
Started(current_dir, original_path) ==
    [pc |-> "start", current_dir |-> current_dir,
     original_path |-> original_path, local_metadata |-> new,
     repo_metadata |-> new, result |-> "none"]

nonRace == <<rvars, gitvars, svars, hvars, metadata, call, lvars, syncs,
             sync_call, avars, dvars>>

RaceSyncedPath(p) == Join(FilesDir, file_name(procs[p].original_path))

\* GitboxMetadata::load_from_dir(&current_dir), the already-synced check
\* and create_link
LoadLocal(p) ==
    /\ procs[p].pc = "start"
    /\ LET local_metadata == load_from_dir(records, procs[p].current_dir)
       IN  procs' = [procs EXCEPT ![p] =
              IF get_file(local_metadata, procs[p].original_path) # None
              THEN [@ EXCEPT !.pc = "done",
                             !.result = "File is already synced"]
              ELSE [@ EXCEPT !.pc = "save_local",
                             !.local_metadata = local_metadata]]
    /\ UNCHANGED <<records, uuids, nonRace>>

\* local_metadata.add_file(..); local_metadata.save_to_dir(&current_dir)
SaveLocal(p) ==
    /\ procs[p].pc = "save_local"
    /\ records' = save_to_dir(records, procs[p].current_dir,
                              Tracked(procs[p].local_metadata,
                                      procs[p].original_path,
                                      RaceSyncedPath(p), FALSE, uuids + 1,
                                      Alpha))
    /\ uuids' = uuids + 1
    /\ procs' = [procs EXCEPT ![p].pc = "load_repo"]
    /\ UNCHANGED nonRace

\* GitboxMetadata::load_from_dir(&repo_path)
LoadRepo(p) ==
    /\ procs[p].pc = "load_repo"
    /\ procs' = [procs EXCEPT ![p].pc = "save_repo",
                              ![p].repo_metadata =
                                  load_from_dir(records, RepoDir)]
    /\ UNCHANGED <<records, uuids, nonRace>>

\* repo_metadata.add_file(..); repo_metadata.save_to_dir(&repo_path); the
\* commit, the push and the update of AppInfo follow and the call returns.
SaveRepo(p) ==
    /\ procs[p].pc = "save_repo"
    /\ records' = save_to_dir(records, RepoDir,
                              add_file(procs[p].repo_metadata,
                                       procs[p].original_path,
                                       RaceSyncedPath(p), FALSE, uuids + 1))
    /\ uuids' = uuids + 1
    /\ procs' = [procs EXCEPT ![p].pc = "done", ![p].result = "Ok"]
    /\ UNCHANGED nonRace

\* The invocations start in the user directories, on records that are
\* empty or hold the entry of an earlier sync_file.
EarlierRecords ==
    LET original_path == Join(UserDirV, <<"a">>)
        entry == add_file(new, original_path, TrackedA, FALSE, 0)
    IN  {[d \in RecordDirs |-> new],
         [d \in RecordDirs |->
            IF d = UserDirV THEN [entry EXCEPT !.repo_name = Some(Alpha)]
            ELSE IF d = RepoDir THEN entry ELSE new]}

RaceInit ==
    /\ repos_dir = {Alpha}
    /\ partial_name = <<>>
    /\ found = Unresolved
    /\ NoSync
    /\ NoMeta /\ NoLinks /\ NoAdds /\ NoManager
    /\ syncs = 0
    /\ sync_call = NoSyncCall
    /\ records \in EarlierRecords
    /\ \E dirs \in [Procs -> UserDirs] :
          procs = [p \in Procs |-> Started(dirs[p], RacePath(p))]

RaceNext ==
    \E p \in Procs : LoadLocal(p) \/ SaveLocal(p) \/ LoadRepo(p) \/ SaveRepo(p)

RaceSpec == RaceInit /\ [][RaceNext]_vars

\* ------------------------------------------------------------------------
\* The AppInfo specification: the operations of AppInfo (config.rs) called
\* in any order on the value that AppInfo::default() makes, each followed
\* by its save.
\* ------------------------------------------------------------------------

\* The state that the operations of AppInfo leave alone.
nonAppInfo ==
    <<rvars, gitvars, svars, hvars, mvars, lvars, tvars, elsewhere, clones,
      hosted, adds, add_call, dvars, pvars>>

InfoNames == {TrackedRepo, OtherRepo}

\* What the scan of the root may find: for each name nothing, or a
\* directory in one of its states.
Listings ==
    UNION {{t \in [S -> UNION {DirEntries(n) : n \in S}] :
              \A n \in S : t[n] \in DirEntries(n)} : S \in SUBSET InfoNames}

\* The operations so far that saved: the model follows MaxOps of them.
MoreOps == app_info.updates < MaxOps

Saved == info_file' = app_info'

AddRepository ==
    /\ MoreOps
    /\ \E name \in InfoNames, known \in BOOLEAN :
          LET remote_url == IF known THEN Some(CloneUrl(name)) ELSE None
          IN  app_info' = add_repository(app_info, name, remote_url)
    /\ Saved
    /\ UNCHANGED nonAppInfo

RemoveRepository ==
    /\ MoreOps
    /\ \E name \in InfoNames :
          app_info' = remove_repository(app_info, name)
    /\ Saved
    /\ UNCHANGED nonAppInfo

UpdateRepository ==
    /\ MoreOps
    /\ \E name \in InfoNames, file_count \in 0..MaxFiles :
          app_info' = update_repository(app_info, name, file_count)
    /\ Saved
    /\ UNCHANGED nonAppInfo

RefreshFromDisk ==
    /\ MoreOps
    /\ \E root_exists \in BOOLEAN, entries \in Listings :
          app_info' = refresh_from_disk(app_info, root_exists, entries)
    /\ Saved
    /\ UNCHANGED nonAppInfo

InfoInit ==
    /\ repos_dir = {}
    /\ partial_name = <<>>
    /\ found = Unresolved
    /\ NoSync
    /\ NoFiles

InfoNext ==
    AddRepository \/ RemoveRepository \/ UpdateRepository \/ RefreshFromDisk

InfoSpec == InfoInit /\ [][InfoNext]_vars

\* ------------------------------------------------------------------------
\* Properties of sync_repo
\* ------------------------------------------------------------------------

\* The positions of a command in the current run's trace.
Steps(step) == {i \in 1..Len(trace) : trace[i].step = step}
Count(step) == Cardinality(Steps(step))
Ran(step) == Steps(step) # {}

\* How the (first) execution of a command ended: "ok", "fail" (it ran and
\* exited unsuccessfully), "exec" (it could not be run), "none" (not executed).
Out(step) ==
    IF Ran(step)
    THEN trace[CHOOSE i \in Steps(step) : \A j \in Steps(step) : i <= j].out
    ELSE "none"
StderrOf(step) ==
    IF Ran(step)
    THEN trace[CHOOSE i \in Steps(step) : \A j \in Steps(step) : i <= j].stderr
    ELSE StderrNone
Failed(step) == Out(step) \in {"fail", "exec"}

\* A fast-forward rejection: the push failed because the remote has commits
\* that the local branch does not have as ancestors.
FastForwardRejection(stderr) ==
    stderr \in {StderrNonFastForward, StderrFetchFirst}

\* C1: a run executes each of pull, push, recovery pull and retry push at
\* most once (so at most two pulls and two pushes, and no loop); when the
\* first push is rejected for a fast-forward reason, exactly one recovery
\* pull is made, the push is retried exactly when that pull succeeded, and
\* the run fails if the recovery pull or the retry push fails.
C1_OneShotRecovery ==
    /\ Count("pull") <= 1 /\ Count("pull_merge") <= 1
    /\ Count("push") <= 1 /\ Count("retry_push") <= 1
    /\ (pc = "done" /\ Out("push") = "fail"
            /\ FastForwardRejection(StderrOf("push")))
        => /\ Count("pull_merge") = 1
           /\ Ran("retry_push") <=> Out("pull_merge") = "ok"
           /\ (Failed("pull_merge") \/ Failed("retry_push")) => result # "Ok"
           /\ result = "Ok" <=> Out("retry_push") = "ok"

\* C1 witness: the first push was rejected (fast-forward), the recovery pull
\* merged, and the retry push was rejected again: the run has ended, failed.
C1_Witness ==
    /\ pc = "done"
    /\ FastForwardRejection(StderrOf("push"))
    /\ Out("pull_merge") = "ok"
    /\ FastForwardRejection(StderrOf("retry_push"))
    /\ result = ErrRetryPush

C3_PullFailureAlwaysReachesPush ==
    (pc = "done" /\ Out("pull") = "fail") => (Ran("status") /\ Ran("push"))

\* C3 (amended): a failed initial pull, whatever its message, never ends the
\* run: change detection is always the next step, and the push is attempted
\* unless change detection, staging or committing fails.
C3_PullFailureNeverAborts ==
    /\ Out("pull") = "fail" => (pc = "status" \/ Ran("status"))
    /\ (pc = "done" /\ Out("pull") = "fail" /\ ~Ran("push"))
        => (Failed("status") \/ Failed("add") \/ Failed("commit"))

\* C3 witness: the pull failed for a cause that is neither "no upstream" nor
\* "remote ref not found", and the run went on to the push.
C3_Witness ==
    /\ Out("pull") = "fail"
    /\ StderrOf("pull") = StderrNetwork
    /\ Ran("status") /\ Ran("push")

\* C4: on a clone without a remote named origin, the run executes no command
\* but the remote check (no branch creation, pull, stage, commit or push),
\* never succeeds, and ends with the no-remote error as soon as the check
\* has reported the missing remote.
C4_NoRemoteFailsFirst ==
    (~hasRemote /\ found.kind = "Ok")
        => /\ \A i \in 1..Len(trace) : trace[i].step = "remote_check"
           /\ pc \in {"remote_check", "done"}
           /\ result # "Ok"
           /\ Out("remote_check") = "fail"
                => (pc = "done" /\ result = ErrNoRemote)

\* C4 witness: the run ended with the no-remote error although the default
\* branch was missing and changes were pending.
C4_Witness ==
    /\ ~hasRemote /\ pc = "done" /\ result = ErrNoRemote
    /\ ~branchExists /\ unstaged

\* The errors of the stage-and-commit step.
CommitFailed == {ErrAdd, ErrCommit, ErrExec("add"), ErrExec("commit")}

\* C5: when staging or committing fails, the run ends there with a
\* stage-and-commit error, no push is attempted, and the failing step leaves
\* the clone (histories, index, working tree, unfinished merge) as it was.
C5_CommitFailureIsFatal ==
    /\ []((Failed("add") \/ Failed("commit"))
            => /\ pc = "done"
               /\ result \in CommitFailed
               /\ ~Ran("push") /\ ~Ran("retry_push"))
    /\ [][(pc \in {"add", "commit"} /\ pc' = "done")
            => UNCHANGED gitvars]_vars

\* C5 witness: the commit failed after a pull that had brought in commits
\* and with the changes staged; they are all still there.
C5_Witness ==
    /\ pc = "done" /\ result = ErrCommit
    /\ Out("pull") = "ok" /\ Cardinality(localHist) >= 2
    /\ staged

\* C6 (as claimed): the recovery cycle runs only after a fast-forward
\* rejection of the first push; any other failure of the first push ends the
\* run with the push error, without a second pull or a second push.
C6_RecoveryOnlyOnFastForwardRejection ==
    /\ (Ran("pull_merge") \/ Ran("retry_push"))
        => (Out("push") = "fail" /\ FastForwardRejection(StderrOf("push")))
    /\ (pc = "done" /\ Failed("push")
            /\ ~FastForwardRejection(StderrOf("push")))
        => (result \in {ErrPush, ErrExec("push")}
            /\ ~Ran("pull_merge") /\ ~Ran("retry_push"))

\* C7: a run returns Ok only from a push step whose push was accepted, and at
\* that moment the remote's default branch has exactly the history of the
\* local one, which includes every commit the remote had before.
C7_SuccessMeansPublished ==
    /\ [](result = "Ok" => (Out("push") = "ok" \/ Out("retry_push") = "ok"))
    /\ [][(pc # "done" /\ pc' = "done" /\ result' = "Ok")
            => /\ pc \in {"push", "retry_push"}
               /\ localHist' # {}
               /\ remoteHist' = localHist'
               /\ remoteHist \subseteq localHist']_vars

\* C7 witness: a run succeeded through the recovery cycle, and the remote
\* holds the merged history.
C7_Witness ==
    /\ pc = "done" /\ result = "Ok"
    /\ Out("retry_push") = "ok"
    /\ remoteHist = localHist
    /\ Cardinality(localHist) >= 3

\* C8 (as claimed): after a successful run the default branch tracks its
\* upstream, whichever push succeeded.
C8_SuccessEstablishesUpstream ==
    (pc = "done" /\ result = "Ok") => upstream

\* ------------------------------------------------------------------------
\* Properties of the resolver
\* ------------------------------------------------------------------------

\* C9: whenever the partial name equals a known repository name, the
\* resolver returns exactly that name, however many other known names
\* contain it or are contained in it.
C9_ExactMatchWins ==
    (found.kind # "none" /\ partial_name \in repos_dir)
        => found = Ok(partial_name)

\* C9 witness: an exact name resolved while another known name contains it.
C9_Witness ==
    /\ found.kind = "Ok"
    /\ partial_name \in repos_dir
    /\ \E other \in repos_dir \ {partial_name} : Contains(other, partial_name)

\* C10 (as claimed): with known repositories {"alpha", "alpha-beta"},
\* resolving "alpha" fails with AmbiguousName.
C10_AlphaIsAmbiguous ==
    (found.kind # "none" /\ repos_dir = {Alpha, AlphaBeta}
        /\ partial_name = Alpha)
        => found.kind = "AmbiguousName"

\* C10 (amended): with known repositories {"alpha", "alpha-beta"},
\* resolving "alpha" returns "alpha": the exact match is taken before the
\* forward-containment pass is consulted.
C10_AlphaResolvesToAlpha ==
    (found.kind # "none" /\ repos_dir = {Alpha, AlphaBeta}
        /\ partial_name = Alpha)
        => found = Ok(Alpha)

\* C10 witness: "alpha" was resolved against {"alpha", "alpha-beta"}, both
\* of which the forward pass would match.
C10_Witness ==
    /\ repos_dir = {Alpha, AlphaBeta}
    /\ partial_name = Alpha
    /\ found.kind = "Ok"
    /\ Len(ForwardMatches(list_repos(repos_dir), partial_name)) = 2

\* The known names that contain the partial name, and those it contains.
Containing(partial) == {r \in repos_dir : Contains(r, partial)}
ContainedIn(partial) == {r \in repos_dir : Contains(partial, r)}

\* C11: when no known name equals the partial name, one known name
\* containing it is returned, and several make the resolver fail with
\* AmbiguousName listing exactly those names; the names the partial name
\* contains play no part in either outcome.
C11_ForwardContainment ==
    (found.kind # "none" /\ partial_name \notin repos_dir)
        => LET fwd == Containing(partial_name)
           IN  /\ Cardinality(fwd) = 1 => \E r \in fwd : found = Ok(r)
               /\ Cardinality(fwd) > 1 =>
                     /\ found.kind = "AmbiguousName"
                     /\ found.name = partial_name
                     /\ found.listing = SortedSeq(fwd)
                     /\ {found.listing[i] : i \in 1..Len(found.listing)} = fwd

\* C11 witness: a partial name resolved to the one known name containing
\* it while another known name is contained in the partial name.
C11_Witness ==
    /\ partial_name \notin repos_dir
    /\ Cardinality(Containing(partial_name)) = 1
    /\ ContainedIn(partial_name) # {}
    /\ found.kind = "Ok"
    /\ found.name \in Containing(partial_name)

\* C12: when no known name equals or contains the partial name, one known
\* name contained in it is returned, several make the resolver fail with
\* AmbiguousName, and none makes it fail with NotFound listing every known
\* name, or "none" when there is no repository; a returned name is always
\* a known name.
C12_ReverseContainment ==
    /\ found.kind = "Ok" => found.name \in repos_dir
    /\ (found.kind # "none" /\ partial_name \notin repos_dir
            /\ Containing(partial_name) = {})
          => LET rev == ContainedIn(partial_name)
             IN  /\ Cardinality(rev) = 1 => \E r \in rev : found = Ok(r)
                 /\ Cardinality(rev) > 1 =>
                       /\ found.kind = "AmbiguousName"
                       /\ found.listing = SortedSeq(rev)
                 /\ rev = {} =>
                       /\ found.kind = "NotFound"
                       /\ found.name = partial_name
                       /\ found.listing =
                             IF repos_dir = {} THEN NoneMarker
                             ELSE SortedSeq(repos_dir)

\* C12 witness: "alpha-extra" resolved to "alpha", the one known name it
\* contains, no known name containing it.
C12_Witness ==
    /\ partial_name = AlphaExtra
    /\ Alpha \in repos_dir
    /\ Containing(partial_name) = {}
    /\ ContainedIn(partial_name) = {Alpha}
    /\ found = Ok(Alpha)

\* ------------------------------------------------------------------------
\* Properties of the metadata record
\* ------------------------------------------------------------------------

\* The keys and the entries of the record.
Keys(md) == DOMAIN md.files
Entries(md) == {md.files[k] : k \in Keys(md)}

\* C13: right after add_file, get_file on the same original path returns
\* an entry with the tracked path and the is_directory flag that were
\* passed; when the key was already present the entry is replaced, the
\* number of entries is unchanged and every other entry is as it was.
C13_AddThenGet ==
    call.op = "add_file" =>
        LET got == get_file(metadata, call.original_path)
            key == to_string_lossy(call.original_path)
        IN  /\ got # None
            /\ got[1].synced_path = call.synced_path
            /\ got[1].is_directory = call.is_directory
            /\ got[1].id = call.id
            /\ key \in Keys(call.before) =>
                  /\ Cardinality(Keys(metadata))
                        = Cardinality(Keys(call.before))
                  /\ \A k \in Keys(call.before) \ {key} :
                        metadata.files[k] = call.before.files[k]

\* C13 witness: add_file on a key already present, with another tracked
\* path than the entry it replaces, in a record holding other entries too.
C13_Witness ==
    /\ call.op = "add_file"
    /\ to_string_lossy(call.original_path) \in Keys(call.before)
    /\ call.before.files[to_string_lossy(call.original_path)].synced_path
          # call.synced_path
    /\ Cardinality(Keys(metadata)) >= 2
    /\ get_file(metadata, call.original_path)[1].synced_path
          = call.synced_path

\* C14: every entry is stored under the string form of its own original
\* path, and no two entries of the record have the same original path.
C14_KeyedByOriginalPath ==
    /\ \A k \in Keys(metadata) :
          k = to_string_lossy(metadata.files[k].original_path)
    /\ \A k1, k2 \in Keys(metadata) :
          metadata.files[k1].original_path = metadata.files[k2].original_path
              => k1 = k2

\* C14 witness: a record of several entries after an entry was removed or
\* replaced and another was added, two of them with one tracked path.
C14_Witness ==
    /\ call.op = "add_file"
    /\ Cardinality(Keys(metadata)) >= 2
    /\ \E e \in Entries(metadata) : e.id > Cardinality(Keys(metadata))
    /\ \E e1, e2 \in Entries(metadata) :
          e1.synced_path = e2.synced_path /\ e1.id # e2.id

\* ------------------------------------------------------------------------
\* Properties of create_link
\* ------------------------------------------------------------------------

\* The hard_link and symlink calls of the last create_link, in order, and
\* whether it got as far as making them.
LinkCalls ==
    SelectSeq(linked.calls, LAMBDA c : c.op \in {"hard_link", "symlink"})
ReachedLinking ==
    \A i \in 1..Len(linked.calls) :
        linked.calls[i].op \in {"remove_file", "create_dir_all"}
            => linked.calls[i].ok

\* C16: for a directory original create_link makes one symlink call and
\* returns its outcome; for a file original it calls hard_link first and
\* returns Ok when that succeeds; when hard_link fails it makes one symlink
\* call and returns the outcome of that call, so that a failed hard_link
\* followed by a successful symlink is never an error.
C16_MechanismByType ==
    (linked.op = "create_link" /\ ReachedLinking) =>
        /\ linked.original_is_dir =>
              /\ Len(LinkCalls) = 1
              /\ LinkCalls[1].op = "symlink"
              /\ linked.ok = LinkCalls[1].ok
        /\ ~linked.original_is_dir =>
              /\ LinkCalls[1].op = "hard_link"
              /\ LinkCalls[1].ok => (Len(LinkCalls) = 1 /\ linked.ok)
              /\ ~LinkCalls[1].ok =>
                    /\ Len(LinkCalls) = 2
                    /\ LinkCalls[2].op = "symlink"
                    /\ linked.ok = LinkCalls[2].ok
        /\ (linked.ok /\ LinkCalls[Len(LinkCalls)].op = "symlink")
              => fs[linked.link] = SymbolicLink(linked.original)

\* C16 witness: for a file original the hard link failed and the symbolic
\* link made instead succeeded, and create_link returned Ok.
C16_Witness ==
    /\ linked.op = "create_link"
    /\ ~linked.original_is_dir
    /\ linked.original # linked.link
    /\ LinkCalls = <<FsCall("hard_link", FALSE), FsCall("symlink", TRUE)>>
    /\ linked.ok
    /\ fs[linked.link] = SymbolicLink(linked.original)

\* C17: whatever kind of object create_link finds at the link path (a
\* regular file, a hard link, a live or a dangling symbolic link, a
\* directory), and no call failing for an outside cause, it removes the
\* object first and then returns Ok with the new link in place.
C17_ExistingTargetReplaced ==
    (linked.op = "create_link" /\ linked.found # "absent"
        /\ ~linked.faulted /\ linked.original # linked.link)
        => /\ linked.ok
           /\ linked.calls[1] = FsCall("remove_file", TRUE)
           /\ fs[linked.link].kind # "absent"

\* C18: after create_link returned Ok, a read through the link path yields
\* the content of the original, which is the content the original had when
\* the call was made until a write is made through one of the two paths.
C18_LinkReadsOriginal ==
    (linked.op = "create_link" /\ linked.ok) =>
        /\ Read(fs, content, linked.link) # NoData
        /\ Read(fs, content, linked.link)
              = Read(fs, content, linked.original)
        /\ linked.written = {} =>
              Read(fs, content, linked.link) = linked.had

\* ------------------------------------------------------------------------
\* Properties of sync_file and sync_from_remote
\* ------------------------------------------------------------------------

\* A record holds an entry for a path, with a tracked path and a flag.
HasEntry(md, path, synced_path, is_directory) ==
    LET entry == get_file(md, path)
    IN  /\ entry # None
        /\ entry[1].original_path = path
        /\ entry[1].synced_path = synced_path
        /\ entry[1].is_directory = is_directory

\* C15: after sync_file or sync_from_remote returned Ok, the record of the
\* user directory and the record of the repository both hold an entry
\* keyed by the file's original path, with one tracked path and one
\* is_directory flag.
C15_BothRecordsHoldEntry ==
    sync_call.ok =>
        \E synced_path \in FsPaths, is_directory \in BOOLEAN :
            /\ HasEntry(records[sync_call.current_dir],
                        sync_call.original_path, synced_path, is_directory)
            /\ HasEntry(records[RepoDir],
                        sync_call.original_path, synced_path, is_directory)

\* ------------------------------------------------------------------------
\* Properties of add_repo
\* ------------------------------------------------------------------------

\* The last add_repo call changed nothing and asked nothing of the host.
AddChangedNothing ==
    /\ CurrentAddState = add_call.before
    /\ add_call.requests = <<>>

\* C19: add_repo with a name that is empty or blank, or that contains '/'
\* or '\', fails with the invalid-name error, creates no directory, sends
\* no request to the remote host and leaves the aggregate information as
\* it was; and no directory is ever created outside the repository root.
C19_InvalidNameRejected ==
    /\ (add_call.op = "add_repo"
            /\ (TrimIsEmpty(add_call.repo_name)
                  \/ HasSeparator(add_call.repo_name)))
          => /\ add_call.err \in {ErrEmptyName, ErrSeparators}
             /\ AddChangedNothing
    /\ elsewhere = {}
    /\ \A dir \in DOMAIN clones : UnderRoot(dir)

\* C19 witness: a name leading out of the repository root was rejected
\* for its separator, a repository already being set up.
C19_Witness ==
    /\ add_call.op = "add_repo"
    /\ HasSeparator(add_call.repo_name)
    /\ ~UnderRoot(get_repo_path(add_call.repo_name))
    /\ add_call.err = ErrSeparators
    /\ repos_dir # {}
    /\ AddChangedNothing

\* C20: add_repo with a valid name whose directory exists fails with the
\* already-exists error and leaves the directory, its working tree, its
\* record and the aggregate information as they were.
C20_ExistingDirectoryKept ==
    (add_call.op = "add_repo"
        /\ ~TrimIsEmpty(add_call.repo_name)
        /\ ~HasSeparator(add_call.repo_name)
        /\ DirExists(get_repo_path(add_call.repo_name),
                     add_call.before.repos_dir, add_call.before.elsewhere))
        => /\ add_call.err = ErrAlreadyExists
           /\ AddChangedNothing

\* C20 witness: add_repo was called again with the name of a repository
\* that an earlier call had set up completely.
C20_Witness ==
    /\ add_call.op = "add_repo"
    /\ add_call.repo_name \in add_call.before.repos_dir
    /\ add_call.repo_name \in DOMAIN app_info.repositories
    /\ CloneAt(clones, get_repo_path(add_call.repo_name)).first_sync # "none"
    /\ add_call.err = ErrAlreadyExists

\* The creation on the remote host failed in the last add_repo call, and
\* gh reported the name as taken.
CreationFailed == add_call.op = "add_repo" /\ add_call.create_error # <<>>
NameTaken == Tail(add_call.create_error) = GhNameExists

\* The errors of the steps of add_repo that follow the creation.
ErrAfterCreation ==
    {"Failed to add remote origin", "Failed to execute git pull",
     "Failed to push to GitHub", "Failed to write info file"}

\* C21: when the creation on the remote host reports that the repository
\* already exists, add_repo asks for the authenticated user, builds the
\* clone URL from the user and the repository name and goes on to the
\* remote and the first synchronization; when the creation fails for
\* another reason add_repo fails with the creation's error, and when the
\* lookup of the user fails add_repo fails with the lookup's error.
C21_ExistingRemoteFallsBack ==
    CreationFailed =>
        IF NameTaken
        THEN /\ add_call.requests[Len(add_call.requests)] = "api user"
             /\ \/ /\ add_call.err = "Failed to get authenticated user"
                   /\ add_call.clone_url = None
                \/ /\ add_call.err \in ErrAfterCreation \cup {"Ok"}
                   /\ add_call.clone_url
                        = Some(CloneUrl(add_call.repo_name))
             /\ add_call.ok
                  => CloneAt(clones, get_repo_path(add_call.repo_name)).remote
                        = Some(CloneUrl(add_call.repo_name))
        ELSE /\ ~add_call.ok
             /\ add_call.err = add_call.create_error[1]
             /\ \A i \in 1..Len(add_call.requests) :
                    add_call.requests[i] # "api user"
             /\ add_call.clone_url = None

\* C21 witness: add_repo succeeded for a repository that was on the remote
\* host before the call, with the clone URL built from the user's name.
C21_Witness ==
    /\ CreationFailed
    /\ NameTaken
    /\ add_call.repo_name \in add_call.before.hosted
    /\ add_call.ok
    /\ add_call.clone_url = Some(CloneUrl(add_call.repo_name))

\* C22: after a successful add_repo the aggregate information holds an
\* entry for the new name with the resolved remote URL and file count 0,
\* and total_repos is the number of entries; after a failed add_repo the
\* aggregate information, in memory and in its file, is as before the call.
C22_AggregateInfoRecordsNewRepository ==
    add_call.op = "add_repo" =>
        IF add_call.ok
        THEN /\ add_call.repo_name \in DOMAIN app_info.repositories
             /\ app_info.repositories[add_call.repo_name]
                  = RepoInfo(add_call.repo_name, 0, add_call.clone_url)
             /\ app_info.total_repos
                  = Cardinality(DOMAIN app_info.repositories)
             /\ info_file = app_info
        ELSE /\ app_info = add_call.before.app_info
             /\ info_file = add_call.before.info_file

\* ------------------------------------------------------------------------
\* Properties of delete_repo and of the refresh of AppInfo
\* ------------------------------------------------------------------------

\* The last call was delete_repo and it resolved the name it was given.
Deleting == mgr_call.op = "delete_repo" /\ mgr_call.resolved # None

\* The answer typed at the prompt: the line without its line terminator,
\* with upper case taken for lower case.
Answer(line) ==
    LET typed == SelectSeq(line, LAMBDA c : c \notin {"\n", "\r"})
    IN  [i \in 1..Len(typed) |-> LowerOf(typed[i])]
Affirmative(line) == Answer(line) \in {<<"y">>, <<"y", "e", "s">>}

\* The prompt of the last delete_repo call was reached and answered.
Answered ==
    /\ Deleting
    /\ ~mgr_call.force
    /\ mgr_call.err \notin {"Failed to parse metadata file",
                            "Failed to read the answer"}

\* The disk and the aggregate information are as before the last call.
NothingDeleted ==
    /\ tree = mgr_call.before.entries
    /\ fs = mgr_call.before.fs
    /\ records = mgr_call.before.records
    /\ app_info = mgr_call.before.app_info
    /\ info_file = mgr_call.before.info_file

\* C23: delete_repo without force, answered with anything other than "y"
\* or "yes" in any case, returns Ok and leaves the repository directory
\* and the aggregate information as they were.
C23_OtherAnswerCancels ==
    (Answered /\ ~Affirmative(mgr_call.line))
        => mgr_call.ok /\ NothingDeleted

\* The answer is "y" or "yes" in any case between white space.
AffirmativePadded(line) ==
    \E i \in 0..Len(line), j \in 0..Len(line) :
        /\ i <= j
        /\ \A k \in 1..i : line[k] \in LineSpace
        /\ \A k \in (j + 1)..Len(line) : line[k] \in LineSpace
        /\ [k \in 1..(j - i) |-> LowerOf(line[i + k])]
              \in {<<"y">>, <<"y", "e", "s">>}

\* C23 as amended: delete_repo without force, answered with anything
\* other than "y" or "yes" in any case with white space around it,
\* returns Ok and leaves the repository directory, the tracked files, the
\* records and the aggregate information as they were.
C23_OtherTrimmedAnswerCancels ==
    (Answered /\ ~AffirmativePadded(mgr_call.line))
        => mgr_call.ok /\ NothingDeleted

\* C23 witness: the deletion of a repository that holds the tracked copy
\* of a user's file was asked for and answered with something else than
\* yes, or with the end of the input.
C23_Witness ==
    /\ Answered
    /\ mgr_call.line \in {<<"n", "\n">>, <<>>, <<"y", "e", "s", "!", "\n">>}
    /\ mgr_call.resolved = Some(TrackedRepo)
    /\ fs[TrackedA].kind # "absent"
    /\ TrackedRepo \in DOMAIN app_info.repositories
    /\ mgr_call.ok
    /\ NothingDeleted

\* The last delete_repo call was forced or confirmed, and returned Ok.
Deleted ==
    /\ Deleting
    /\ mgr_call.force \/ AffirmativePadded(mgr_call.line)
    /\ mgr_call.ok

\* C24: after a delete_repo that was forced or confirmed and returned Ok,
\* the directory of the resolved repository is gone, the aggregate
\* information has no entry for it, total_repos is the number of entries
\* left, total_files is lower by the file count of the deleted repository,
\* and the entries of the other repositories are as they were.
C24_DeletedRepositoryForgotten ==
    Deleted =>
        LET name == mgr_call.resolved[1]
            known == mgr_call.before.app_info
        IN  /\ name \notin DOMAIN tree
            /\ name \notin repos_dir
            /\ name \in DOMAIN known.repositories
            /\ DOMAIN app_info.repositories
                  = DOMAIN known.repositories \ {name}
            /\ \A other \in DOMAIN app_info.repositories :
                  app_info.repositories[other] = known.repositories[other]
            /\ app_info.total_repos
                  = Cardinality(DOMAIN app_info.repositories)
            /\ app_info.total_files
                  = known.total_files - known.repositories[name].file_count
            /\ app_info.total_files >= 0
            /\ info_file = app_info

\* C24 witness: a repository holding files was deleted on a confirmation
\* while another repository holding files stayed.
C24_Witness ==
    /\ Deleted
    /\ ~mgr_call.force
    /\ mgr_call.before.app_info.repositories[mgr_call.resolved[1]].file_count
          > 0
    /\ app_info.total_files > 0
    /\ app_info.total_repos = 1

\* C25: delete_repo changes nothing outside the repository root: the
\* repositories on the remote host stay, no command but the query of the
\* remote URL is run, and the records of the user directories and what
\* the original paths name are as before the call.
C25_NothingOutsideRootChanged ==
    mgr_call.op = "delete_repo" =>
        /\ hosted = mgr_call.before.hosted
        /\ \A i \in 1..Len(mgr_call.commands) :
              mgr_call.commands[i] = "git remote get-url origin"
        /\ \A d \in UserDirs : records[d] = mgr_call.before.records[d]
        /\ \A p \in UserPaths : fs[p] = mgr_call.before.fs[p]
        /\ elsewhere = {}

\* C25 witness: the repository holding the link to a user's directory was
\* deleted, it is on the remote host, and the record of the user directory
\* still names the tracked path, which is gone.
C25_Witness ==
    /\ Deleted
    /\ mgr_call.removed = Some(TrackedRepo)
    /\ TrackedRepo \in hosted
    /\ mgr_call.before.fs[TrackedA] = SymbolicLink(OriginalU)
    /\ fs[OriginalU].kind = "dir"
    /\ fs[TrackedA] = Absent
    /\ \E k \in DOMAIN records[UserDirU].files :
          records[UserDirU].files[k].synced_path = TrackedA

\* The last call was RepoManager::new and it got to the refresh, which
\* found the root.
Refreshed ==
    /\ mgr_call.op = "new"
    /\ mgr_call.err \in {"Ok", "Failed to write info file"}
Scanned == Refreshed /\ mgr_call.before.root

\* C26: a refresh that finds no repository under the root, as after the
\* deletion of the only one, leaves an empty map and totals of 0,
\* whatever the aggregate information held before.
C26_RefreshOfEmptyRoot ==
    (Scanned /\ Subdirectories(mgr_call.before.entries) = {})
        => /\ DOMAIN app_info.repositories = {}
           /\ app_info.total_repos = 0
           /\ app_info.total_files = 0

\* C26 witness: the run after the one that deleted the only repository,
\* whose entry and totals were still in the info file, refreshed them away.
C26_Witness ==
    /\ Scanned
    /\ mgr_call.follows # None
    /\ Subdirectories(mgr_call.before.entries) = {}
    /\ mgr_call.follows[1] \in DOMAIN mgr_call.before.app_info.repositories
    /\ mgr_call.before.app_info.total_repos > 0
    /\ mgr_call.before.app_info.total_files > 0
    /\ app_info.total_repos = 0

\* The immediate subdirectories of the root at the refresh, none when the
\* root is missing, and the entries in the files directory of one.
DirsOnDisk ==
    IF mgr_call.before.root THEN Subdirectories(mgr_call.before.entries)
    ELSE {}
FilesOnDisk(name) ==
    IF mgr_call.before.entries[name].files_dir
    THEN mgr_call.before.entries[name].file_count ELSE 0

\* C27: after a refresh, whatever the aggregate information held and
\* whether the root exists or not, the keys of the repository map are the
\* immediate subdirectories of the root, the file count of each entry is
\* the number of entries in its files directory (0 without one), and
\* total_files is the sum of the file counts.
C27_RefreshMatchesDisk ==
    Refreshed =>
        /\ DOMAIN app_info.repositories = DirsOnDisk
        /\ \A name \in DirsOnDisk :
              app_info.repositories[name].file_count = FilesOnDisk(name)
        /\ app_info.total_files
              = SumOver([name \in DirsOnDisk |-> FilesOnDisk(name)],
                        DirsOnDisk)

\* C28: after a refresh that found the root, a repository whose remote URL
\* query failed is recorded with no remote URL, whatever URL its entry
\* held before.
C28_FailedQueryMeansNoUrl ==
    Scanned =>
        \A name \in DirsOnDisk :
            mgr_call.before.entries[name].remote = None
                => app_info.repositories[name].remote_url = None


\* ---------------------------------------------------------------------
\* Properties of the branch the sync operations work on
\* ---------------------------------------------------------------------

\* C29: for every configured default branch name, every pull and push
\* that a sync operation issues targets that configured default branch
\* and no other branch.
C29_SyncTargetsDefaultBranch ==
    \A i \in 1..Len(sync_call.commands) :
        BranchOf(sync_call.commands[i]) = sync_call.default_branch


\* ---------------------------------------------------------------------
\* The order of the steps of one sync_repo run
\* ---------------------------------------------------------------------

\* The place of a command in the text of sync_repo.
StepOrder ==
    <<"remote_check", "branch_check", "create_branch", "pull", "status",
      "add", "commit", "push", "pull_merge", "retry_push">>
Rank(step) == CHOOSE i \in 1..Len(StepOrder) : StepOrder[i] = step

\* The positions of the trace at which a command of the given kinds ran.
At(steps) == {i \in 1..Len(trace) : trace[i].step \in steps}
Pulls == {"pull", "pull_merge"}
Pushes == {"push", "retry_push"}

\* Every command of the run follows, in the text of sync_repo, the
\* command before it; the run began with the remote check.
InStepOrder ==
    /\ trace # <<>> => trace[1].step = "remote_check"
    /\ \A i \in 1..Len(trace) : trace[i].step \in
          {StepOrder[k] : k \in 1..Len(StepOrder)}
    /\ \A i \in 1..(Len(trace) - 1) :
          Rank(trace[i].step) < Rank(trace[i + 1].step)

\* After the first push attempt the run makes no commit.
NoCommitAfterPush ==
    \A i \in At(Pushes) : \A j \in At({"commit"}) : j < i

\* The first push attempt comes after the initial pull attempt.
NoPushBeforePull ==
    \A i \in At(Pushes) : \E j \in At({"pull"}) : j < i

\* The positions at which the creation of the missing branch failed.
BranchCreateFailures ==
    {i \in At({"create_branch"}) : trace[i].out # "ok"}

\* A failed creation of the branch is the last command of the run, which
\* has ended in an error; no pull was or will be made.
BranchCreateFailureEndsRun ==
    \A i \in BranchCreateFailures :
        /\ i = Len(trace)
        /\ pc = "done"
        /\ result \notin {"none", "Ok"}
        /\ trace[i].out = "fail" => result = ErrCreateBranch
        /\ At(Pulls) = {}

\* A run that is over has returned Ok or an error, one that is not has
\* returned nothing.
EndsInSuccessOrFailure == (pc = "done") <=> (result # "none")

\* C30: within one sync_repo run the steps occur only in the order remote
\* check, branch ensure, pull, change detection, optional stage and
\* commit, push, optional recovery pull, optional retry push, and the run
\* ends in success or failure; no commit is made after the first push
\* attempt, no push is attempted before the initial pull attempt, and a
\* failure to create the missing default branch ends the run with the
\* branch-creation error before any pull.
C30_StepsInOrder ==
    /\ InStepOrder
    /\ NoCommitAfterPush
    /\ NoPushBeforePull
    /\ BranchCreateFailureEndsRun
    /\ EndsInSuccessOrFailure

\* A run created the branch, committed, was rejected, merged and pushed
\* again: all ten commands ran.
C30_Witness ==
    /\ pc = "done"
    /\ Len(trace) = Len(StepOrder)
    /\ At({"commit"}) # {}
    /\ At({"retry_push"}) # {}


\* ---------------------------------------------------------------------
\* Change detection and the commit of sync_repo
\* ---------------------------------------------------------------------

\* git status ran and exited successfully: the run goes on.
StatusReported == pc = "status" /\ pc' \notin {"status", "done"}

\* git add ran and exited successfully.
Staged == pc = "add" /\ pc' \notin {"add", "done"}

\* What the run does on the report of git status, and after staging.
FollowsStatus ==
    /\ StatusReported =>
          IF StatusPorcelain = <<>> THEN pc' = "push" ELSE pc' = "add"
    /\ Staged => pc' = "commit"

\* A run whose status was empty has neither staged nor committed; a
\* commit was made only after a status that reported changes and a
\* successful staging.
CommitOnlyOfChanges ==
    /\ (Out("status") = "ok" /\ ~has_changes)
          => ~Ran("add") /\ ~Ran("commit")
    /\ Ran("commit")
          => Out("status") = "ok" /\ has_changes /\ Out("add") = "ok"

\* C31: in a sync_repo run that reaches change detection, a commit is
\* created if and only if the status reports pending changes (and staging
\* and committing succeed); when the status is empty the run goes
\* straight to push without staging or committing.
C31_CommitIffChanges == [][FollowsStatus]_vars /\ []CommitOnlyOfChanges

\* A run found changes, staged and committed them, and pushed.
C31_Witness ==
    /\ pc = "done"
    /\ result = "Ok"
    /\ has_changes
    /\ Out("commit") = "ok"
    /\ Out("push") = "ok"


\* ---------------------------------------------------------------------
\* The first synchronization made by add_repo
\* ---------------------------------------------------------------------

\* The clone that the last add_repo call set up, before and after it.
AddedClone == CloneAt(clones, get_repo_path(add_call.repo_name))
AddedCloneBefore ==
    CloneAt(add_call.before.clones, get_repo_path(add_call.repo_name))

\* The last add_repo call attached the remote to its clone.
RemoteAttached ==
    /\ add_call.op = "add_repo"
    /\ AddedCloneBefore.remote = None
    /\ AddedClone.remote # None

\* C32: in add_repo, after the remote is attached a pull is attempted
\* first; the initial commit is pushed if and only if that pull failed
\* (ran and exited unsuccessfully); if that push also fails add_repo
\* fails; when the pull succeeds add_repo makes no push.
C32_PullFirstPushOnFailure ==
    LET commands == add_call.commands
    IN  /\ RemoteAttached <=> commands # <<>>
        /\ commands # <<>> =>
              /\ commands[1].step = "pull"
              /\ Len(commands) <= 2
              /\ Len(commands) = 2 <=> commands[1].out = "fail"
              /\ commands[1].out = "ok" =>
                    \A i \in 1..Len(commands) : commands[i].step # "push"
              /\ commands[1].out = "exec" => ~add_call.ok
        /\ Len(commands) = 2 =>
              /\ commands[2].step = "push"
              /\ commands[2].out # "ok" =>
                    ~add_call.ok /\ add_call.err = "Failed to push to GitHub"

\* The pull failed and the push of the initial commit failed as well.
C32_Witness ==
    /\ RemoteAttached
    /\ Len(add_call.commands) = 2
    /\ add_call.commands[1] = GitCommand("pull", "fail")
    /\ add_call.commands[2] = GitCommand("push", "fail")
    /\ ~add_call.ok


\* ---------------------------------------------------------------------
\* Properties of sync_file: collisions, repeated calls and failures
\* ---------------------------------------------------------------------

\* A step of the behaviour that is a sync_file call, and its arguments.
SyncFileCalled == syncs' = syncs + 1 /\ sync_call'.op = "sync_file"
CalledPath == sync_call'.original_path
CalledDir == sync_call'.current_dir
ErrAlreadySynced == "File is already synced to a repository"

\* The entries of a record that have the given tracked path, but another
\* original path than the given one.
Colliding(md, original_path, synced_path) ==
    {k \in Keys(md) : /\ k # to_string_lossy(original_path)
                      /\ md.files[k].synced_path = synced_path}

\* The call is the second of two: the repository's record has an entry
\* of another original path with the same file name, whose tracked copy
\* is in the files directory, and the path of this call has no entry in
\* the record of the current directory.
SecondOfTwo ==
    /\ SyncFileCalled
    /\ exists(fs, CalledPath)
    /\ Colliding(records[RepoDir], CalledPath,
                 Join(FilesDir, file_name(CalledPath))) # {}
    /\ fs[TrackedA].kind # "absent"
    /\ get_file(records[CalledDir], CalledPath) = None

\* The tracked path leads to the object of the original path of the call.
TrackedCopyIsOf(f, original_path) ==
    \/ f[TrackedA] = SymbolicLink(original_path)
    \/ f[TrackedA].kind = "file" /\ f[TrackedA] = f[original_path]

\* What the second call leaves behind when it returns Ok.
CollisionEffects ==
    LET synced_path == Join(FilesDir, file_name(CalledPath))
        repo_metadata == records'[RepoDir]
        key == to_string_lossy(CalledPath)
    IN  /\ TrackedCopyIsOf(fs', CalledPath)
        /\ key \in Keys(repo_metadata)
        /\ repo_metadata.files[key].synced_path = synced_path
        /\ Colliding(repo_metadata, CalledPath, synced_path)
              = Colliding(records[RepoDir], CalledPath, synced_path)
        /\ FileCount(fs') = 1
        /\ \A n \in DOMAIN app_info'.repositories :
              app_info'.repositories[n].file_count = 1

\* C33: when sync_file is applied to two distinct original paths that
\* have the same base name and the same target repository, both calls
\* pass the already-tracked check, the second call replaces the tracked
\* copy created by the first, and afterwards the records hold two
\* entries with the same tracked path while the files directory (and
\* the file count of AppInfo) holds only one object.
C33_SameNameCollides ==
    [][SecondOfTwo => /\ sync_call'.err # ErrAlreadySynced
                      /\ sync_call'.ok => CollisionEffects]_vars

\* Two paths of the same name were synchronized to the repository: its
\* record has two entries with the one tracked path, the files directory
\* one object.
C33_Witness ==
    /\ sync_call.op = "sync_file"
    /\ sync_call.ok
    /\ Colliding(records[RepoDir], sync_call.original_path, TrackedA) # {}
    /\ get_file(records[RepoDir], sync_call.original_path) # None
    /\ FileCount(fs) = 1
    /\ app_info.repositories[Alpha].file_count = 1


\* ---------------------------------------------------------------------
\* Properties of sync_file invocations that run at the same time
\* ---------------------------------------------------------------------

\* The key of the entry that an invocation adds.
RaceKey(p) == to_string_lossy(procs[p].original_path)

\* The entries that were written to the record since the invocation read
\* it: those of the file that are not in the record it has in memory.
WrittenSince(md, dir, p) == Keys(records[dir]) \ (Keys(md) \cup {RaceKey(p)})

\* The invocation writes a record: the file then holds the entries that
\* the invocation had read and its own, and none of those written since.
Overwrites(md, dir, p) ==
    /\ Keys(records'[dir]) = Keys(md) \cup {RaceKey(p)}
    /\ Keys(records'[dir]) \cap WrittenSince(md, dir, p) = {}

SavesLocal(p) == procs[p].pc = "save_local" /\ procs'[p].pc = "load_repo"
SavesRepo(p) == procs[p].pc = "save_repo" /\ procs'[p].pc = "done"

SavesOverwrite ==
    \A p \in Procs :
        /\ SavesLocal(p) =>
              Overwrites(procs[p].local_metadata, procs[p].current_dir, p)
        /\ SavesRepo(p) => Overwrites(procs[p].repo_metadata, RepoDir, p)

\* C34: two sync_file invocations that run at the same time from the same
\* user directory (or on the same repository) can interleave the load,
\* change and save of the same record so that the record on disk ends
\* with only one of the two added entries; nothing prevents it: each
\* save replaces the file by what the invocation read and its own entry,
\* whatever was written in between.
C34_SaveLosesConcurrentUpdate == [][SavesOverwrite]_vars

\* Two invocations in one user directory both returned Ok, and the entry
\* of one of them is in neither the directory's record nor the
\* repository's.
C34_Witness ==
    /\ procs # <<>>
    /\ \A p \in Procs : procs[p].pc = "done" /\ procs[p].result = "Ok"
    /\ \E p, q \in Procs :
          /\ p # q
          /\ procs[p].current_dir = procs[q].current_dir
          /\ RaceKey(p) \notin Keys(records[procs[p].current_dir])
          /\ RaceKey(p) \notin Keys(records[RepoDir])
          /\ RaceKey(q) \in Keys(records[RepoDir])


\* The call is given a path that exists and has an entry in the record
\* of the current directory, for a repository that exists.
GivenTrackedPath ==
    /\ SyncFileCalled
    /\ exists(fs, sync_call'.file_path)
    /\ get_file(records[CalledDir], sync_call'.file_path) # None
    /\ sync_call'.err # "Repository does not exist"

\* The call made no link, wrote no record, ran no command and left
\* AppInfo as it was.
NothingSynced ==
    /\ UNCHANGED <<fs, content, files_dir, records, app_info, info_file>>
    /\ sync_call'.steps = <<>>
    /\ sync_call'.commands = <<>>

\* C35: sync_file on an original path that already has an entry in the
\* record of the current directory fails with the already-synced error
\* and changes nothing: no link is created or replaced, neither record
\* is written, no commit or push is made and AppInfo is unchanged.
C35_TrackedPathRejected ==
    [][GivenTrackedPath =>
          sync_call'.err = ErrAlreadySynced /\ NothingSynced]_vars


\* ---------------------------------------------------------------------
\* The totals of AppInfo
\* ---------------------------------------------------------------------

\* C36: after any sequence of AppInfo operations (add_repository,
\* remove_repository, update_repository, refresh_from_disk), total_repos
\* equals the number of entries in the repository map and total_files
\* equals the sum of the entries' file counts.
C36_TotalsMatchEntries ==
    /\ app_info.total_repos = Cardinality(DOMAIN app_info.repositories)
    /\ app_info.total_files = TotalFiles(app_info.repositories)


\* ---------------------------------------------------------------------
\* add_repo after a failed add_repo
\* ---------------------------------------------------------------------

\* The errors that add_repo returns before it has a directory.
ErrsBeforeDirectory ==
    {ErrEmptyName, ErrSeparators, ErrAlreadyExists,
     "Failed to create repository directory"}

\* The last add_repo call failed at a step after fs::create_dir_all.
FailedPastDirectory ==
    /\ add_call.op = "add_repo"
    /\ ~add_call.ok
    /\ add_call.err \notin ErrsBeforeDirectory

\* The directory of the repository that the last call named.
AddedPath == get_repo_path(add_call.repo_name)

\* The failed call has left its directory, and AppInfo on disk as it was.
DirectoryLeft ==
    FailedPastDirectory =>
        /\ ~DirExists(AddedPath, add_call.before.repos_dir,
                      add_call.before.elsewhere)
        /\ DirExists(AddedPath, repos_dir, elsewhere)
        /\ info_file = add_call.before.info_file

\* add_repo is called again with the name of the call that failed.
CalledAgain ==
    /\ FailedPastDirectory
    /\ adds' = adds + 1
    /\ add_call'.repo_name = add_call.repo_name

\* C37: if add_repo fails at any step after it has created the
\* repository directory, the directory is left on disk and is not rolled
\* back, so a following add_repo with the same name fails with the
\* already-exists error.
C37_FailedAddBlocksName ==
    /\ []DirectoryLeft
    /\ [][CalledAgain => /\ add_call'.err = ErrAlreadyExists
                          /\ UNCHANGED <<repos_dir, elsewhere, clones>>]_vars

\* A call was rejected because of the directory of a clone that an
\* earlier call had left without a remote and without an entry in AppInfo.
C37_Witness ==
    /\ add_call.op = "add_repo"
    /\ add_call.err = ErrAlreadyExists
    /\ adds = 2
    /\ CloneAt(clones, AddedPath).git # "none"
    /\ CloneAt(clones, AddedPath).remote = None
    /\ add_call.repo_name \notin DOMAIN app_info.repositories


\* ---------------------------------------------------------------------
\* sync_file after a failed commit or push
\* ---------------------------------------------------------------------

\* The errors of self.commit_repo_changes(..)? and
\* self.push_repo_changes(..)? in sync_file.
ErrsOfCommitAndPush == {"Failed to commit", "Failed to push"}

\* The step is a sync_file call that fails at its commit or its push.
FailsAtCommitOrPush ==
    SyncFileCalled /\ sync_call'.err \in ErrsOfCommitAndPush

\* The link and both entries are there after the call, and AppInfo is as
\* it was before the call, in memory and on disk.
WrittenAndKept ==
    /\ sync_call'.steps[1] = "create_link"
    /\ TrackedCopyIsOf(fs', CalledPath)
    /\ get_file(records'[CalledDir], CalledPath) # None
    /\ get_file(records'[RepoDir], CalledPath) # None
    /\ UNCHANGED <<app_info, info_file>>

\* The step is a sync_file call with the path and the directory of the
\* last call, which failed at its commit or push, on a repository that
\* exists.
CalledAfterFailure ==
    /\ sync_call.op = "sync_file"
    /\ sync_call.err \in ErrsOfCommitAndPush
    /\ SyncFileCalled
    /\ sync_call'.file_path = sync_call.file_path
    /\ CalledDir = sync_call.current_dir
    /\ sync_call'.err # "Repository does not exist"

\* The call is rejected before its first step: as already synced when
\* the path leads to something, as missing when it does not.
RejectedUnretried ==
    /\ sync_call'.err = IF exists(fs, sync_call.file_path)
                            THEN ErrAlreadySynced
                            ELSE "File or directory does not exist"
    /\ NothingSynced

\* C38: if sync_file fails at its commit or push step, the link and the
\* entries already written to the record of the user directory and to the
\* record of the repository are not rolled back and the file count of
\* AppInfo is not updated; a following sync_file on the same path from
\* the same directory is rejected as already synced, so the commit and
\* the push are never retried by sync_file.
C38_FailedSyncIsNotRetried ==
    /\ [][FailsAtCommitOrPush => WrittenAndKept]_vars
    /\ [][CalledAfterFailure => RejectedUnretried]_vars

\* A call was rejected as already synced for a path whose entries are in
\* both records and whose tracked copy is in the files directory, while
\* AppInfo still counts no file in the repository.
C38_Witness ==
    /\ sync_call.op = "sync_file"
    /\ sync_call.err = ErrAlreadySynced
    /\ syncs = 2
    /\ get_file(records[sync_call.current_dir], sync_call.original_path)
          # None
    /\ get_file(records[RepoDir], sync_call.original_path) # None
    /\ TrackedCopyIsOf(fs, sync_call.original_path)
    /\ FileCount(fs) = 1
    /\ app_info.repositories[Alpha].file_count = 0
    /\ info_file = TrackedInfo

====
